---- MODULE Spec2Model ----
(***************************************************************************)
(* Model of the hybrid retrieval pipeline of blue-enigma-hybrid-ai:        *)
(* HybridChatSystem (src/src/hybrid_chat.py), the embedding manager        *)
(* (src/utils/embeddings.py), process_user_query and run of the Streamlit  *)
(* app (src/app.py) and upload_vectors of src/src/pinecone_upload.py.      *)
(*                                                                         *)
(* Conventions.  Python None for a sequence-valued local is <<>>, for a    *)
(* time value it is NoTime.  Floats are integers (embedding components,    *)
(* scores in thousandths, times in clock ticks).  A Python string that is  *)
(* built by formatting is the tuple of its parts, so that "contains m" is  *)
(* a statement about a component of the tuple.  A string the code looks    *)
(* inside (a query in extract_key_terms, a property of a graph node) is    *)
(* the sequence of its characters; one it only passes on is a TLA+ string. *)
(* A dict is a function on its keys, so that a missing key is a key that   *)
(* is not in its domain.                                                   *)
(***************************************************************************)
EXTENDS Integers, Sequences, FiniteSets, TLC

\* ------------------------------------------------------------------ bounds
\* Number of requests one HybridChatSystem serves in a behaviour.
MaxRequests == 2
\* Longest duration, in clock ticks, of one backend call.
MaxDelay == 1
\* Number of calls the cache harness makes (SpecCache).
MaxCalls == 3
\* Number of threads that call get_cached_embedding concurrently (SpecConc).
NumThreads == 2
\* Largest number of Location nodes in a graph store (SpecGraph).
MaxNodes == 2
\* Largest number of fragments a query is put together from (SpecTerms).
MaxFragments == 3
\* Longest list of matches, and of facts, handed to build_prompt (SpecPrompt).
MaxMatches == 6
MaxFacts == 9
\* The quick queries of the sidebar that are clicked in the model.
MaxQuick == 2
\* Longest list of vectors, and largest batch size, of upload_vectors.
MaxVectors == 5
MaxBatch == 3

\* ------------------------------------------------------- program constants
\* The literal 1024 of get_embeddings (pad / truncate / zero fallback).
TargetDim == 1024
PINECONE_TARGET_DIM == 1024
EMBEDDING_DIM == 768
\* query_pinecone_async(query, top_k=5)
top_k == 5

\* time.time() values are >= 0: a local that holds no time yet.
NoTime == 0 - 1

\* --------------------------------------------------------------- the inputs
\* A query whose text holds a lone surrogate (stdin decoded with
\* surrogateescape): str.encode() raises UnicodeEncodeError on it.
SurrogateQuery == "caf<udce9>"
GoodQueries == {"romantic 4 day itinerary", "beach"}
Queries == GoodQueries \cup {SurrogateQuery}

Encodable(text) == text # SurrogateQuery

\* Mutant: the key does not depend on the text.
MD5OfNothing(text) == "d41d8cd98f00b204e9800998ecf8427e"

\* hashlib.md5(text.encode()).hexdigest(), tabulated on the queries.
MD5(text) ==
  CASE text = "romantic 4 day itinerary" -> "22416e712eff740dbfd3dd27a6ebe70b"
    [] text = "beach" -> "7193529abbf96dcc058f06d45121d8b1"
    [] OTHER -> "a3a8c26cc0a400cfd8912f9c6112c1bb"

\* Error messages a provider may raise.
ErrorMessages == {"rate limit", "timeout"}
\* Texts the completion provider may answer.
CompletionTexts == {"Day 1: Hanoi"}

\* ------------------------------------------------------------- strings
\* Where the code looks inside a string (substring tests, lower-casing, the
\* day pattern, lengths, ordering) the string is the sequence of its
\* characters.  Chars gives the characters of the string constants and of the
\* texts the model uses.
Chars(s) ==
  CASE s = "romantic" -> <<"r", "o", "m", "a", "n", "t", "i", "c">>
    [] s = "adventure" -> <<"a", "d", "v", "e", "n", "t", "u", "r", "e">>
    [] s = "budget" -> <<"b", "u", "d", "g", "e", "t">>
    [] s = "luxury" -> <<"l", "u", "x", "u", "r", "y">>
    [] s = "family" -> <<"f", "a", "m", "i", "l", "y">>
    [] s = "solo" -> <<"s", "o", "l", "o">>
    [] s = "couple" -> <<"c", "o", "u", "p", "l", "e">>
    [] s = "beach" -> <<"b", "e", "a", "c", "h">>
    [] s = "mountain" -> <<"m", "o", "u", "n", "t", "a", "i", "n">>
    [] s = "culture" -> <<"c", "u", "l", "t", "u", "r", "e">>
    [] s = "food" -> <<"f", "o", "o", "d">>
    [] s = "historical" -> <<"h", "i", "s", "t", "o", "r", "i", "c", "a",
         "l">>
    [] s = "itinerary" -> <<"i", "t", "i", "n", "e", "r", "a", "r", "y">>
    [] s = "tour" -> <<"t", "o", "u", "r">>
    [] s = "relax" -> <<"r", "e", "l", "a", "x">>
    [] s = "explore" -> <<"e", "x", "p", "l", "o", "r", "e">>
    [] s = "hiking" -> <<"h", "i", "k", "i", "n", "g">>
    [] s = "cruise" -> <<"c", "r", "u", "i", "s", "e">>
    [] s = "island" -> <<"i", "s", "l", "a", "n", "d">>
    [] s = "city" -> <<"c", "i", "t", "y">>
    [] s = "countryside" -> <<"c", "o", "u", "n", "t", "r", "y", "s", "i",
         "d", "e">>
    [] s = "hanoi" -> <<"h", "a", "n", "o", "i">>
    [] s = "ha long" -> <<"h", "a", " ", "l", "o", "n", "g">>
    [] s = "halong" -> <<"h", "a", "l", "o", "n", "g">>
    [] s = "hue" -> <<"h", "u", "e">>
    [] s = "hoi an" -> <<"h", "o", "i", " ", "a", "n">>
    [] s = "da nang" -> <<"d", "a", " ", "n", "a", "n", "g">>
    [] s = "nha trang" -> <<"n", "h", "a", " ", "t", "r", "a", "n", "g">>
    [] s = "saigon" -> <<"s", "a", "i", "g", "o", "n">>
    [] s = "ho chi minh" -> <<"h", "o", " ", "c", "h", "i", " ", "m", "i",
         "n", "h">>
    [] s = "mekong" -> <<"m", "e", "k", "o", "n", "g">>
    [] s = "sapa" -> <<"s", "a", "p", "a">>
    [] s = "ninh binh" -> <<"n", "i", "n", "h", " ", "b", "i", "n", "h">>
    [] s = "phu quoc" -> <<"p", "h", "u", " ", "q", "u", "o", "c">>
    [] s = "northern" -> <<"n", "o", "r", "t", "h", "e", "r", "n">>
    [] s = "central" -> <<"c", "e", "n", "t", "r", "a", "l">>
    [] s = "southern" -> <<"s", "o", "u", "t", "h", "e", "r", "n">>
    [] s = "da lat" -> <<"d", "a", " ", "l", "a", "t">>
    [] s = "vietnam" -> <<"v", "i", "e", "t", "n", "a", "m">>
    [] s = "travel" -> <<"t", "r", "a", "v", "e", "l">>
    [] s = "day" -> <<"d", "a", "y">>
    [] s = "romantic 4 day itinerary" -> <<"r", "o", "m", "a", "n", "t", "i",
         "c", " ", "4", " ", "d", "a", "y", " ", "i", "t", "i", "n", "e",
         "r", "a", "r", "y">>
    [] s = "Unknown" -> <<"U", "n", "k", "n", "o", "w", "n">>
    [] s = "hello" -> <<"h", "e", "l", "l", "o">>
    [] s = "city_hanoi" -> <<"c", "i", "t", "y", "_", "h", "a", "n", "o",
         "i">>
    [] s = "city_hue" -> <<"c", "i", "t", "y", "_", "h", "u", "e">>
    [] s = "city_hoi_an" -> <<"c", "i", "t", "y", "_", "h", "o", "i", "_",
         "a", "n">>
    [] s = "Hanoi" -> <<"H", "a", "n", "o", "i">>
    [] s = "Hue" -> <<"H", "u", "e">>
    [] s = "Hoi An" -> <<"H", "o", "i", " ", "A", "n">>
    [] s = "Northern Vietnam" -> <<"N", "o", "r", "t", "h", "e", "r", "n",
         " ", "V", "i", "e", "t", "n", "a", "m">>
    [] s = "Central Vietnam" -> <<"C", "e", "n", "t", "r", "a", "l", " ",
         "V", "i", "e", "t", "n", "a", "m">>
    [] s = "Ha Long" -> <<"H", "a", " ", "L", "o", "n", "g">>
    [] s = "City" -> <<"C", "i", "t", "y">>
    [] s = "Spring" -> <<"S", "p", "r", "i", "n", "g">>
    [] s = "A destination described at length." -> <<"A", " ", "d", "e", "s",
         "t", "i", "n", "a", "t", "i", "o", "n", " ", "d", "e", "s", "c",
         "r", "i", "b", "e", "d", " ", "a", "t", " ", "l", "e", "n", "g",
         "t", "h", ".">>
    [] s = "The capital city with a historical old quarter" -> <<"T", "h",
         "e", " ", "c", "a", "p", "i", "t", "a", "l", " ", "c", "i", "t",
         "y", " ", "w", "i", "t", "h", " ", "a", " ", "h", "i", "s", "t",
         "o", "r", "i", "c", "a", "l", " ", "o", "l", "d", " ", "q", "u",
         "a", "r", "t", "e", "r">>
    [] s = "Imperial city" -> <<"I", "m", "p", "e", "r", "i", "a", "l", " ",
         "c", "i", "t", "y">>
    [] s = "A beach town with a long romantic promenade" -> <<"A", " ", "b",
         "e", "a", "c", "h", " ", "t", "o", "w", "n", " ", "w", "i", "t",
         "h", " ", "a", " ", "l", "o", "n", "g", " ", "r", "o", "m", "a",
         "n", "t", "i", "c", " ", "p", "r", "o", "m", "e", "n", "a", "d",
         "e">>
    [] s = "A quiet beach town on the southern coast" -> <<"A", " ", "q",
         "u", "i", "e", "t", " ", "b", "e", "a", "c", "h", " ", "t", "o",
         "w", "n", " ", "o", "n", " ", "t", "h", "e", " ", "s", "o", "u",
         "t", "h", "e", "r", "n", " ", "c", "o", "a", "s", "t">>
    [] s = "Beach city with food" -> <<"B", "e", "a", "c", "h", " ", "c",
         "i", "t", "y", " ", "w", "i", "t", "h", " ", "f", "o", "o", "d">>
    [] s = "Beach city and cruise" -> <<"B", "e", "a", "c", "h", " ", "c",
         "i", "t", "y", " ", "a", "n", "d", " ", "c", "r", "u", "i", "s",
         "e">>
    [] s = "Limestone islands rising from the sea" -> <<"L", "i", "m", "e",
         "s", "t", "o", "n", "e", " ", "i", "s", "l", "a", "n", "d", "s",
         " ", "r", "i", "s", "i", "n", "g", " ", "f", "r", "o", "m", " ",
         "t", "h", "e", " ", "s", "e", "a">>
    [] s = "loc_7" -> <<"l", "o", "c", "_", "7">>
    [] s = "loc_8" -> <<"l", "o", "c", "_", "8">>
    [] s = "loc_9" -> <<"l", "o", "c", "_", "9">>
    [] s = "city_sapa" -> <<"c", "i", "t", "y", "_", "s", "a", "p", "a">>
    [] s = "city_da_nang" -> <<"c", "i", "t", "y", "_", "d", "a", "_", "n",
         "a", "n", "g">>
    [] s = "city_nha_trang" -> <<"c", "i", "t", "y", "_", "n", "h", "a", "_",
         "t", "r", "a", "n", "g">>
    [] s = "bay_ha_long" -> <<"b", "a", "y", "_", "h", "a", "_", "l", "o",
         "n", "g">>
    [] s = "Sapa" -> <<"S", "a", "p", "a">>
    [] s = "Da Nang" -> <<"D", "a", " ", "N", "a", "n", "g">>
    [] s = "Nha Trang" -> <<"N", "h", "a", " ", "T", "r", "a", "n", "g">>
    [] s = "Ha Long Bay" -> <<"H", "a", " ", "L", "o", "n", "g", " ", "B",
         "a", "y">>
    [] s = "Quang Ninh" -> <<"Q", "u", "a", "n", "g", " ", "N", "i", "n",
         "h">>
    [] s = "Bay" -> <<"B", "a", "y">>
    [] s = "Create a romantic " -> <<"C", "r", "e", "a", "t", "e", " ", "a",
         " ", "r", "o", "m", "a", "n", "t", "i", "c", " ">>
    [] s = "4 day " -> <<"4", " ", "d", "a", "y", " ">>
    [] s = "4-day " -> <<"4", "-", "d", "a", "y", " ">>
    [] s = "3days" -> <<"3", "d", "a", "y", "s">>
    [] s = "12  day" -> <<"1", "2", " ", " ", "d", "a", "y">>
    [] s = "9" -> <<"9">>
    [] s = "HALONG" -> <<"H", "A", "L", "O", "N", "G">>
    [] s = "ha long " -> <<"h", "a", " ", "l", "o", "n", "g", " ">>
    [] s = "hello " -> <<"h", "e", "l", "l", "o", " ">>
    [] s = "7 DAY" -> <<"7", " ", "D", "A", "Y">>
    [] s = "Not specified" -> <<"N", "o", "t", " ", "s", "p", "e", "c", "i",
         "f", "i", "e", "d">>
    [] OTHER -> <<>>

\* Python None, and Cypher NULL, where a string is expected.
None == <<"None">>

\* Truthiness of a value that is a string or None.
Truthy(x) == x # None /\ x # <<>>

\* The characters of the model's texts, in code point order.
Alphabet ==
  <<" ", "-", "0", "1", "2", "3", "4", "5", "6", "7", "8", "9",
    "A", "B", "C", "D", "E", "F", "G", "H", "I", "J", "K", "L", "M",
    "N", "O", "P", "Q", "R", "S", "T", "U", "V", "W", "X", "Y", "Z", "_",
    "a", "b", "c", "d", "e", "f", "g", "h", "i", "j", "k", "l", "m",
    "n", "o", "p", "q", "r", "s", "t", "u", "v", "w", "x", "y", "z">>

Ord(c) == CHOOSE i \in 1..Len(Alphabet) : Alphabet[i] = c

UpperCase == {Alphabet[i] : i \in Ord("A")..Ord("Z")}

\* str.lower() on one character.
LowerChar(c) ==
  IF c \in UpperCase THEN Alphabet[Ord(c) - Ord("A") + Ord("a")] ELSE c

\* str.lower()
lower(s) == [i \in 1..Len(s) |-> LowerChar(s[i])]

\* sub in s
Contains(sub, s) ==
  \E i \in 0..(Len(s) - Len(sub)) : SubSeq(s, i + 1, i + Len(sub)) = sub

\* \d and \s of the re module, on the model's alphabet.
IsDigit(c) == c \in {"0", "1", "2", "3", "4", "5", "6", "7", "8", "9"}
IsSpace(c) == c = " "

\* ------------------------------------------------- utils/embeddings.py
Zeros(n) == [i \in 1..n |-> 0]

\* Component i of the model's output for a text: never 0, and different for
\* different texts.
EncodeValue(text, i) ==
  IF text = "beach" THEN 4 + (i % 3) ELSE 1 + (i % 3)

\* self.embedding_model.encode(texts)[k] for a model of output dimension d.
ModelEncode(text, d) == [i \in 1..d |-> EncodeValue(text, i)]

\* Mutant: the truncation branch is missing (a negative repeat count of a
\* Python list is the empty list).
PadOnly(embedding) ==
  IF Len(embedding) < TargetDim
    THEN embedding \o Zeros(TargetDim - Len(embedding))
    ELSE embedding

\* The loop body of get_embeddings: pad with zeros or truncate to 1024.
PadOrTruncate(embedding) ==
  IF Len(embedding) < TargetDim
    THEN embedding \o Zeros(TargetDim - Len(embedding))
    ELSE SubSeq(embedding, 1, TargetDim)

\* EmbeddingManager.get_embeddings(texts); ok = the model did not raise.
get_embeddings(texts, ok, d) ==
  IF ok
    THEN IF texts = <<>> THEN <<>>
         ELSE [k \in 1..Len(texts) |-> PadOrTruncate(ModelEncode(texts[k], d))]
    ELSE [k \in 1..Len(texts) |-> Zeros(TargetDim)]

\* The two apology formats.
GroqApology == "I apologize, but I encountered an error with the AI service: "
GenerateApology == "I apologize, but I encountered an error while generating the response: "

\* Mutant: the apology is returned without the error's text.
CompletionOnErrorNoMessage(m) == [raised |-> FALSE, text |-> <<GroqApology>>]

\* get_chat_completion's except branch: the apology string with str(e).
CompletionOnError(m) == [raised |-> FALSE, text |-> <<GroqApology, m>>]

\* EmbeddingManager.get_chat_completion(messages, model).  outcome is what the
\* Groq client does: [ok |-> TRUE, text |-> t] or [ok |-> FALSE, msg |-> m].
get_chat_completion(messages, outcome) ==
  IF outcome.ok THEN [raised |-> FALSE, text |-> <<outcome.text>>]
  ELSE CompletionOnError(outcome.msg)

CompletionOutcomes ==
  {[ok |-> TRUE, text |-> t, msg |-> ""] : t \in CompletionTexts}
    \cup {[ok |-> FALSE, text |-> "", msg |-> m] : m \in ErrorMessages}

\* ------------------------------------------------------ backend contents
Metadata(name, tags) ==
  [name |-> name, type |-> "City", region |-> "Northern Vietnam",
   description |-> "A destination described at length.",
   semantic_text |-> "Overview text", best_time_to_visit |-> "Spring",
   tags |-> tags]

Match(id, score, name, tags) ==
  [id |-> id, score |-> score, metadata |-> Metadata(name, tags)]

\* Scores are in ten-thousandths.
M1 == Match("city_hanoi", 9124, "Hanoi", <<"culture", "food">>)
M2 == Match("city_hue", 8503, "Hue", <<>>)
M3 == Match("city_hoi_an", 4318, "Hoi An", <<"romantic">>)

\* What results.get('matches', []) can be for a query that succeeded.
IndexAnswers == {<<>>, <<M1>>, <<M1, M2, M3>>}

CharsOfEach(strings) == [k \in 1..Len(strings) |-> Chars(strings[k])]

\* A row of the Cypher query of query_neo4j_async.
Row(id, name, region, region_name, tags, nearby) ==
  [node_id |-> Chars(id), name |-> Chars(name), type |-> Chars("City"),
   region |-> Chars(region),
   description |-> Chars("A destination described at length."),
   best_time |-> Chars("Spring"), tags |-> CharsOfEach(tags),
   region_name |-> Chars(region_name),
   nearby_locations |-> CharsOfEach(nearby)]

R1 == Row("city_hanoi", "Hanoi", "Northern Vietnam", "Northern Vietnam",
          <<"culture", "food">>, <<"Ha Long">>)
\* A location without a LOCATED_IN relationship: region.name is NULL.
R2 == [Row("city_hue", "Hue", "Central Vietnam", "", <<>>, <<>>)
         EXCEPT !.region_name = None]

\* What session.run(...) can yield when it succeeds.
GraphAnswers == {<<>>, <<R1, R2>>}

\* ------------------------------------------------------- the graph store
\* A Location node as load_to_neo4j.py writes it: its properties, and the
\* names at the far end of its LOCATED_IN, HAS_TAG and NEARBY relationships.
Location(id, name, type, description, located_in, has_tag, nearby) ==
  [id |-> Chars(id), name |-> Chars(name), type |-> Chars(type),
   region |-> Chars("Northern Vietnam"), description |-> Chars(description),
   best_time_to_visit |-> Chars("Spring"),
   located_in |-> CharsOfEach(located_in), has_tag |-> CharsOfEach(has_tag),
   nearby |-> CharsOfEach(nearby)]

\* The dict (or node) d without the keys (properties) in keys.
Without(d, keys) == [k \in (DOMAIN d) \ keys |-> d[k]]

\* The nodes a graph store of the model is made of.  The store is filled by
\* the loader or by any other client of the database, so a node may lack a
\* property or hold any string in it.
LocationPool ==
  { Location("city_hanoi", "Hanoi", "City",
             "The capital city with a historical old quarter",
             <<"Northern Vietnam">>, <<"culture", "food">>, <<"Ha Long Bay">>),
    Location("bay_ha_long", "Ha Long Bay", "Bay",
             "Limestone islands rising from the sea",
             <<"Northern Vietnam", "Quang Ninh">>, <<"cruise">>, <<"Hanoi">>),
    Location("city_hue", "Hue", "City", "Imperial city", <<>>, <<>>, <<>>),
    Location("city_da_nang", "Da Nang", "City", "Beach city with food",
             <<>>, <<>>, <<>>),
    Location("city_nha_trang", "Nha Trang", "City", "Beach city and cruise",
             <<>>, <<"beach">>, <<>>),
    Location("loc_7", "Unknown", "City",
             "A beach town with a long romantic promenade", <<>>, <<>>, <<>>),
    Location("loc_8", "", "City",
             "A quiet beach town on the southern coast", <<>>, <<>>, <<>>),
    Without(Location("loc_9", "", "City",
                     "A quiet beach town on the southern coast",
                     <<>>, <<>>, <<>>), {"name"}),
    Without(Location("city_sapa", "Sapa", "City", "", <<>>, <<>>, <<>>),
            {"description"}) }

\* ---------------------------------------------------------------- the state
VARIABLES
  neo4j_driver,     \* self.neo4j_driver: "None" or "Driver"
  embedding_cache,  \* self.embedding_cache: md5 digest -> vector
  model_dim,        \* output dimension of the loaded SentenceTransformer
  req,              \* the locals of the request in flight, and its position
  ret,              \* what process_query_with_metrics handed to its caller
  now,              \* time.time()
  requests,         \* top-level calls served so far (requests, harness calls)
  obs,              \* observation of the request in flight: calls and failures
  provider_calls,   \* observation: get_embeddings calls made by
                    \* get_cached_embedding, per text
  computed_vecs,    \* observation: the vectors those calls produced, per text
  returned_vecs,    \* observation: vectors get_cached_embedding returned, per text
  last_call,        \* observation: the last call of the cache harness
  th,               \* the threads of the concurrent cache harness
  system_prompt,    \* self.system_prompt
  status,           \* observation: what get_system_status last returned, since
                    \* the request in flight began (or the last one ended),
                    \* and where the request was at (at) when it was called
  app,              \* what StreamlitTravelApp.process_user_query returned for
                    \* the request in flight
  fn_call,          \* a direct call of one method: its arguments and its result
  prompts,          \* observation: the prompts build_prompt returned, per input
  session_state     \* st.session_state of the app: user_input, last_response,
                    \* process_query

vars == <<neo4j_driver, embedding_cache, model_dim, req, ret, now, requests,
          obs, provider_calls, computed_vecs, returned_vecs, last_call, th,
          system_prompt, status, app, fn_call, prompts, session_state>>

\* Mutant: the driver reference is taken to be set whatever it holds.
DriverTruthyAlways(driver) == TRUE

\* Python truthiness of self.neo4j_driver.
DriverTruthy(driver) == driver # "None"

IdleReq ==
  [pc |-> "idle", query |-> "", pinecone_task |-> "none", neo4j_task |-> "none",
   query_embedding |-> <<>>, pinecone_results |-> <<>>, neo4j_results |-> <<>>,
   key_terms |-> <<>>, search_start |-> NoTime, start_time |-> NoTime,
   search_time |-> NoTime, response |-> <<>>, response_time |-> NoTime,
   total_time |-> NoTime]

NoRet ==
  [status |-> "none", pinecone_results |-> <<>>, neo4j_results |-> <<>>,
   response |-> <<>>, total_time |-> NoTime, exc |-> ""]

NoObs ==
  [embed_calls |-> 0, index_queries |-> 0, graph_queries |-> 0,
   extract_calls |-> 0, completion_calls |-> 0,
   provider_failed |-> FALSE, index_failed |-> FALSE, graph_failed |-> FALSE,
   completion_error |-> <<>>, index_answer |-> <<>>, graph_answer |-> <<>>,
   cache_stored |-> FALSE, completion_answer |-> <<>>,
   index_time |-> 0, graph_time |-> 0]

NoCall == [fn |-> "none", texts |-> <<>>, ok |-> TRUE, hit |-> FALSE,
           raised |-> FALSE, result |-> <<>>]

Threads == 1..NumThreads

\* The system directive __init__ assigns to self.system_prompt.
SystemPrompt == "You are an expert Vietnam travel assistant"

NoStatus == [called |-> FALSE]
NoApp == [status |-> "none"]
NoFnCall == [fn |-> "none"]

\* st.session_state.last_response = None
NoResponse == [query |-> ""]

\* st.session_state as the first lines of StreamlitTravelApp.run set it up.
NoSession ==
  [user_input |-> "", last_response |-> NoResponse, process_query |-> FALSE]

IdleThread ==
  [pc |-> "idle", text |-> "", text_hash |-> "", embedding |-> <<>>,
   result |-> <<>>]

\* HybridChatSystem.__init__: the driver is kept only if it was created and
\* verify_connectivity() succeeded; the cache starts empty.
InitSystem ==
  /\ neo4j_driver \in {"None", "Driver"}
  /\ embedding_cache = << >>
  /\ req = IdleReq
  /\ ret = NoRet
  /\ now = 0
  /\ requests = 0
  /\ obs = NoObs
  /\ provider_calls = [t \in Queries |-> 0]
  /\ computed_vecs = [t \in Queries |-> {}]
  /\ returned_vecs = [t \in Queries |-> {}]
  /\ last_call = NoCall
  /\ th = [i \in Threads |-> IdleThread]
  /\ system_prompt = SystemPrompt
  /\ status = NoStatus
  /\ app = NoApp
  /\ prompts = << >>
  /\ session_state = NoSession

Init ==
  /\ InitSystem
  /\ model_dim = EMBEDDING_DIM
  /\ fn_call = NoFnCall

\* ------------------------------------------------- get_cached_embedding
\* The cache after self.embedding_cache[text_hash] = embedding.
CacheStore(cache, text_hash, embedding) ==
  [h \in (DOMAIN cache) \cup {text_hash} |->
     IF h = text_hash THEN embedding ELSE cache[h]]

\* Mutant: the computed embedding is returned without being stored.
get_cached_embedding_nostore(cache, text, ok, d) ==
  LET text_hash == MD5(text) IN
  IF text_hash \in DOMAIN cache
    THEN [embedding |-> cache[text_hash], cache |-> cache, miss |-> FALSE]
    ELSE [embedding |-> get_embeddings(<<text>>, ok, d)[1], cache |-> cache,
          miss |-> TRUE]

\* get_cached_embedding(text) for an encodable text, run without interruption:
\* the value returned, the cache afterwards, and whether the provider ran.
\* ok = the model did not raise in get_embeddings.
get_cached_embedding(cache, text, ok, d) ==
  LET text_hash == MD5(text) IN
  IF text_hash \in DOMAIN cache
    THEN [embedding |-> cache[text_hash], cache |-> cache, miss |-> FALSE]
    ELSE LET embedding == get_embeddings(<<text>>, ok, d)[1] IN
         [embedding |-> embedding,
          cache |-> CacheStore(cache, text_hash, embedding),
          miss |-> TRUE]

\* ----------------------------------------------------- extract_key_terms
vietnam_locations ==
  <<"hanoi", "ha long", "halong", "hue", "hoi an", "da nang", "nha trang",
    "saigon", "ho chi minh", "mekong", "sapa", "ninh binh", "phu quoc",
    "northern", "central", "southern", "da lat">>

travel_terms ==
  <<"romantic", "adventure", "budget", "luxury", "family", "solo", "couple",
    "beach", "mountain", "culture", "food", "historical", "itinerary", "tour",
    "relax", "explore", "hiking", "cruise", "island", "city", "countryside">>

\* The list comprehension [term for term in vocabulary if term in query_lower].
TermsIn(vocabulary, query_lower) ==
  LET found == SelectSeq(vocabulary,
                         LAMBDA term : Contains(Chars(term), query_lower))
  IN [k \in 1..Len(found) |-> Chars(found[k])]

\* The position after the digits, and after the white space, that start at i.
RECURSIVE DigitsEnd(_, _)
DigitsEnd(s, i) ==
  IF i <= Len(s) /\ IsDigit(s[i]) THEN DigitsEnd(s, i + 1) ELSE i

RECURSIVE SpacesEnd(_, _)
SpacesEnd(s, i) ==
  IF i <= Len(s) /\ IsSpace(s[i]) THEN SpacesEnd(s, i + 1) ELSE i

\* re.findall(r'(\d+)\s*day', s), scanning from position i: the pattern is
\* tried at i (digits and white space are matched greedily, and giving some
\* back never helps), and the scan goes on after a match.
RECURSIVE FindDays(_, _)
FindDays(s, i) ==
  IF i > Len(s) THEN <<>>
  ELSE LET j == DigitsEnd(s, i)
           k == SpacesEnd(s, j)
       IN IF j > i /\ k + 2 <= Len(s) /\ SubSeq(s, k, k + 2) = Chars("day")
            THEN <<SubSeq(s, i, j - 1)>> \o FindDays(s, k + 3)
            ELSE FindDays(s, i + 1)

\* Mutant: nothing is returned in place of an empty extraction.
NoDefaultTerms == <<>>

\* ['vietnam', 'travel']
DefaultTerms == <<Chars("vietnam"), Chars("travel")>>

\* extract_key_terms(query), query given by its characters.
extract_key_terms(query) ==
  LET query_lower == lower(query)
      extracted == TermsIn(travel_terms, query_lower)
                     \o TermsIn(vietnam_locations, query_lower)
                     \o FindDays(query_lower, 1)
  IN IF extracted # <<>> THEN extracted ELSE DefaultTerms

\* ------------------------------------------------------------ the request
UnchangedHarness ==
  UNCHANGED <<provider_calls, computed_vecs, returned_vecs, last_call, th,
              fn_call, prompts, session_state>>
UnchangedSystem == UNCHANGED <<neo4j_driver, model_dim, system_prompt>>

\* process_query_with_metrics is entered (search_start), then
\* hybrid_search_with_metrics (start_time), then hybrid_search creates the two
\* coroutine objects; neither has run yet.
ProcessQueryStart(q) ==
  /\ req.pc = "idle"
  /\ requests < MaxRequests
  /\ req' = [IdleReq EXCEPT !.pc = "tasks_created", !.query = q,
               !.search_start = now, !.start_time = now,
               !.pinecone_task = "created",
               !.neo4j_task = IF DriverTruthy(neo4j_driver)
                                THEN "created" ELSE "sleep_created"]
  /\ ret' = NoRet
  /\ obs' = NoObs
  /\ status' = NoStatus
  /\ app' = NoApp
  /\ UNCHANGED <<embedding_cache, now, requests>>
  /\ UnchangedSystem /\ UnchangedHarness

\* await pinecone_task, first statement: get_cached_embedding(query).
\* text.encode() raises on a lone surrogate; nothing up to the caller of
\* process_query_with_metrics catches it.
EmbedRaise ==
  /\ req.pc = "tasks_created"
  /\ ~Encodable(req.query)
  /\ req' = [req EXCEPT !.pc = "raised", !.pinecone_task = "raised"]
  /\ ret' = [NoRet EXCEPT !.status = "raised", !.exc = "UnicodeEncodeError"]
  /\ UNCHANGED <<embedding_cache, now, requests, obs>>
  /\ UNCHANGED <<status, app>>
  /\ UnchangedSystem /\ UnchangedHarness

EmbedQuery(ok) ==
  /\ req.pc = "tasks_created"
  /\ Encodable(req.query)
  /\ \E r \in {get_cached_embedding(embedding_cache, req.query, ok, model_dim)} :
       /\ r.miss \/ ok   \* on a hit the provider is not consulted
       /\ embedding_cache' = r.cache
       /\ req' = [req EXCEPT !.pc = "embedded", !.pinecone_task = "running",
                    !.query_embedding = r.embedding]
       /\ obs' = [obs EXCEPT
                    !.embed_calls = IF r.miss THEN @ + 1 ELSE @,
                    !.provider_failed = r.miss /\ ~ok,
                    !.cache_stored = r.miss]
  /\ UNCHANGED <<ret, now, requests>>
  /\ UNCHANGED <<status, app>>
  /\ UnchangedSystem /\ UnchangedHarness

\* Mutant: the except branch re-raises instead of returning [].
PineconeOnErrorRaise == [raised |-> TRUE, matches |-> <<>>]

\* query_pinecone_async's except branch.
PineconeOnError == [raised |-> FALSE, matches |-> <<>>]

IndexOutcomes ==
  {[ok |-> TRUE, matches |-> a] : a \in {a \in IndexAnswers : Len(a) <= top_k}}
    \cup {[ok |-> FALSE, matches |-> <<>>]}

\* Mutant: the index query is given up after d and [] is returned in its place.
PineconeQueryTimesOut(outcome, d) ==
  /\ req.pc = "embedded"
  /\ req' = [req EXCEPT !.pc = "pinecone_done", !.pinecone_task = "done",
               !.pinecone_results = <<>>]
  /\ now' = now + d
  /\ UNCHANGED <<embedding_cache, ret, requests, obs>>
  /\ UNCHANGED <<status, app>>
  /\ UnchangedSystem /\ UnchangedHarness

\* The try block of query_pinecone_async: the index query and its result.
PineconeQuery(outcome, d) ==
  /\ req.pc = "embedded"
  /\ LET r == IF outcome.ok
                THEN [raised |-> FALSE, matches |-> outcome.matches]
                ELSE PineconeOnError
     IN IF r.raised
          THEN /\ req' = [req EXCEPT !.pc = "raised", !.pinecone_task = "raised"]
               /\ ret' = [NoRet EXCEPT !.status = "raised", !.exc = "IndexError"]
          ELSE /\ req' = [req EXCEPT !.pc = "pinecone_done",
                            !.pinecone_task = "done",
                            !.pinecone_results = r.matches]
               /\ ret' = ret
  /\ obs' = [obs EXCEPT !.index_queries = @ + 1,
               !.index_failed = ~outcome.ok,
               !.index_answer = outcome.matches,
               !.index_time = d]
  /\ now' = now + d
  /\ UNCHANGED <<embedding_cache, requests>>
  /\ UNCHANGED <<status, app>>
  /\ UnchangedSystem /\ UnchangedHarness

\* ------------------------------------------- the Cypher of query_neo4j_async
\* loc.p: NULL when the node has no property p.
Prop(loc, p) == IF p \in DOMAIN loc THEN loc[p] ELSE None

\* any(term IN $terms WHERE toLower(loc.name) CONTAINS toLower(term) OR ...):
\* a NULL property makes its disjunct NULL, which any() does not count.
AnyTermMatches(loc, terms) ==
  \E k \in 1..Len(terms) :
    \E p \in {"name", "type", "region", "description"} :
      /\ p \in DOMAIN loc
      /\ Contains(lower(terms[k]), lower(loc[p]))

\* The WHERE clause of the MATCH on Location.
CypherWhere(loc, terms) ==
  /\ AnyTermMatches(loc, terms)
  /\ "name" \in DOMAIN loc
  /\ loc.name # Chars("Unknown")
  /\ "description" \in DOMAIN loc
  /\ Len(loc.description) > 20

\* OPTIONAL MATCH (loc)-[:LOCATED_IN]->(region): NULL without a region.
RegionNames(loc) ==
  IF loc.located_in = <<>> THEN {None}
  ELSE {loc.located_in[k] : k \in 1..Len(loc.located_in)}

\* WITH loc, region, collect(DISTINCT ...) ... RETURN ...: the row of one
\* location and one of its regions.
CypherRow(loc, region_name) ==
  [node_id |-> Prop(loc, "id"), name |-> Prop(loc, "name"),
   type |-> Prop(loc, "type"), region |-> Prop(loc, "region"),
   description |-> Prop(loc, "description"),
   best_time |-> Prop(loc, "best_time_to_visit"), tags |-> loc.has_tag,
   region_name |-> region_name, nearby_locations |-> loc.nearby]

CypherRows(store, terms) ==
  UNION {{CypherRow(loc, rn) : rn \in RegionNames(loc)} :
           loc \in {l \in store : CypherWhere(l, terms)}}

\* Strings are ordered by code point.
StrLess(a, b) ==
  \E i \in 1..Len(b) :
    /\ \A j \in 1..(i - 1) : j <= Len(a) /\ a[j] = b[j]
    /\ i > Len(a) \/ Ord(a[i]) < Ord(b[i])

\* ORDER BY loc.name: the orders the rows can come in (rows of equal name
\* come in any order).
RECURSIVE OrderByName(_)
OrderByName(rows) ==
  IF rows = {} THEN {<<>>}
  ELSE UNION {{<<r>> \o s : s \in OrderByName(rows \ {r})} :
                r \in {r \in rows : \A o \in rows : ~StrLess(o.name, r.name)}}

\* LIMIT 10
Limit == 10

\* What session.run(cypher_query, terms=key_terms) can yield on the store.
CypherResults(store, terms) ==
  {SubSeq(s, 1, IF Len(s) < Limit THEN Len(s) ELSE Limit) :
     s \in OrderByName(CypherRows(store, terms))}

\* record_data of query_neo4j_async: one fact per row of the result.
RecordData(record) ==
  [node_id |-> record.node_id, name |-> record.name, type |-> record.type,
   region |-> IF Truthy(record.region_name) THEN record.region_name
              ELSE record.region,
   description |-> record.description, best_time |-> record.best_time,
   tags |-> record.tags, nearby_locations |-> record.nearby_locations]

\* Mutant: the except branch re-raises instead of returning [].
Neo4jOnErrorRaise == [raised |-> TRUE, records |-> <<>>]

\* query_neo4j_async's except branch.
Neo4jOnError == [raised |-> FALSE, records |-> <<>>]

GraphOutcomes ==
  {[ok |-> TRUE, rows |-> a] : a \in GraphAnswers}
    \cup {[ok |-> FALSE, rows |-> <<>>]}

\* await neo4j_task, when the driver is set: query_neo4j_async starts only now,
\* after pinecone_task has completed.  Its guard passes and it extracts the
\* key terms.
Neo4jExtract ==
  /\ req.pc = "pinecone_done"
  /\ DriverTruthy(neo4j_driver)
  /\ req' = [req EXCEPT !.pc = "terms", !.neo4j_task = "running",
               !.key_terms = extract_key_terms(Chars(req.query))]
  /\ obs' = [obs EXCEPT !.extract_calls = @ + 1]
  /\ UNCHANGED <<embedding_cache, ret, now, requests>>
  /\ UNCHANGED <<status, app>>
  /\ UnchangedSystem /\ UnchangedHarness

\* The try block of query_neo4j_async: session(), run(), the record loop.
Neo4jQuery(outcome, d) ==
  /\ req.pc = "terms"
  /\ LET r == IF outcome.ok
                THEN [raised |-> FALSE,
                      records |-> [k \in 1..Len(outcome.rows) |->
                                     RecordData(outcome.rows[k])]]
                ELSE Neo4jOnError
     IN IF r.raised
          THEN /\ req' = [req EXCEPT !.pc = "raised", !.neo4j_task = "raised"]
               /\ ret' = [NoRet EXCEPT !.status = "raised", !.exc = "Neo4jError"]
          ELSE /\ req' = [req EXCEPT !.pc = "neo4j_done", !.neo4j_task = "done",
                            !.neo4j_results = r.records]
               /\ ret' = ret
  /\ obs' = [obs EXCEPT !.graph_queries = @ + 1,
               !.graph_failed = ~outcome.ok,
               !.graph_answer = outcome.rows,
               !.graph_time = d]
  /\ now' = now + d
  /\ UNCHANGED <<embedding_cache, requests>>
  /\ UNCHANGED <<status, app>>
  /\ UnchangedSystem /\ UnchangedHarness

\* hybrid_search without a driver: neo4j_results = [] and the sleep(0)
\* coroutine is never awaited.
Neo4jAbsent ==
  /\ req.pc = "pinecone_done"
  /\ ~DriverTruthy(neo4j_driver)
  /\ req' = [req EXCEPT !.pc = "neo4j_done", !.neo4j_results = <<>>]
  /\ UNCHANGED <<embedding_cache, ret, now, requests, obs>>
  /\ UNCHANGED <<status, app>>
  /\ UnchangedSystem /\ UnchangedHarness

\* Mutant: hybrid_search returns without awaiting neo4j_task.
SearchReturnWithoutGraph ==
  /\ req.pc \in {"pinecone_done", "neo4j_done"}
  /\ req' = [req EXCEPT !.pc = "searched", !.search_time = now - req.start_time]
  /\ UNCHANGED <<embedding_cache, ret, now, requests, obs>>
  /\ UNCHANGED <<status, app>>
  /\ UnchangedSystem /\ UnchangedHarness

\* hybrid_search returns; hybrid_search_with_metrics measures search_time.
SearchReturn ==
  /\ req.pc = "neo4j_done"
  /\ req' = [req EXCEPT !.pc = "searched", !.search_time = now - req.start_time]
  /\ UNCHANGED <<embedding_cache, ret, now, requests, obs>>
  /\ UNCHANGED <<status, app>>
  /\ UnchangedSystem /\ UnchangedHarness

\* ----------------------------------------------------------- build_prompt
Min(a, b) == IF a < b THEN a ELSE b

\* d.get(key, default)
Get(d, key, default) == IF key \in DOMAIN d THEN d[key] ELSE default

\* Mutant: the slice keeps everything.
TakeAll(s, n) == s

\* s[:n]
Take(s, n) == SubSeq(s, 1, Min(Len(s), n))

\* f"{score:.3f}": the score rounded to thousandths (no score of the model
\* lies half way between two of them).
Format3f(score) == (score + 5) \div 10

\* "\n".join(lines): the lines with a separator between neighbours; the empty
\* string for no lines.
Newline == <<"\n">>
RECURSIVE Join(_)
Join(lines) ==
  IF Len(lines) <= 1 THEN lines
  ELSE <<Head(lines), Newline>> \o Join(Tail(lines))

\* The snippet of one match: the parts of the formatted line.
VecSnippet(i, match) ==
  LET metadata == Get(match, "metadata", <<>>)
      score == Get(match, "score", 0)
      tags == Get(metadata, "tags", <<>>)
  IN <<i, Get(metadata, "name", "Unknown"), Get(metadata, "type", "Unknown"),
       Get(metadata, "region", "Unknown"),
       Get(metadata, "description", Get(metadata, "semantic_text", "")),
       IF tags # <<>> THEN <<"Tags", tags>> ELSE <<>>,
       Get(metadata, "best_time_to_visit", "Not specified"),
       Format3f(score)>>

\* Mutant: the fields are read without a default (dict.get gives None).
GraphSnippetNoDefaults(fact) ==
  LET tags == Get(fact, "tags", <<>>)
      nearby == Get(fact, "nearby_locations", <<>>)
  IN <<Get(fact, "name", None), Get(fact, "type", None),
       Get(fact, "region", None), Get(fact, "description", None),
       IF tags # <<>> THEN <<"Features", Take(tags, 3)>> ELSE <<>>,
       IF nearby # <<>> THEN <<"Nearby destinations", Take(nearby, 2)>>
       ELSE <<>> >>

\* The snippet of one fact.
GraphSnippet(fact) ==
  LET tags == Get(fact, "tags", <<>>)
      nearby == Get(fact, "nearby_locations", <<>>)
  IN <<Get(fact, "name", Chars("Unknown")), Get(fact, "type", Chars("Unknown")),
       Get(fact, "region", Chars("Unknown")), Get(fact, "description", <<>>),
       IF tags # <<>> THEN <<"Features", Take(tags, 3)>> ELSE <<>>,
       IF nearby # <<>> THEN <<"Nearby destinations", Take(nearby, 2)>>
       ELSE <<>> >>

\* Mutant: the prompt carries the number of calls served so far.
build_prompt_numbered(user_query, pinecone_matches, graph_facts) ==
  <<[role |-> "system", content |-> system_prompt],
    [role |-> "user", content |-> <<user_query, <<<<requests>>>>, <<>>>>]>>

\* build_prompt(user_query, pinecone_matches, graph_facts): the two messages.
\* The user message is given by its variable parts: the query, the vector
\* block and the graph block.
build_prompt(user_query, pinecone_matches, graph_facts) ==
  LET shown_matches == Take(pinecone_matches, 5)
      shown_facts == Take(graph_facts, 8)
      vec_context == [i \in 1..Len(shown_matches) |->
                        VecSnippet(i, shown_matches[i])]
      graph_context == [i \in 1..Len(shown_facts) |->
                          GraphSnippet(shown_facts[i])]
  IN <<[role |-> "system", content |-> system_prompt],
       [role |-> "user",
        content |-> <<user_query, Join(vec_context), Join(graph_context)>>]>>

\* generate_response(query, pinecone_results, neo4j_results).  The except
\* branch of generate_response is taken only if get_chat_completion raises.
generate_response(query, pinecone_results, neo4j_results, outcome) ==
  LET prompt == build_prompt(query, pinecone_results, neo4j_results)
      r == get_chat_completion(prompt, outcome)
  IN IF r.raised THEN <<GenerateApology, outcome.msg>> ELSE r.text

\* process_query_with_metrics, lines 278-282: the response and the times.
GenerateResponse(outcome, d) ==
  /\ req.pc = "searched"
  /\ now' = now + d
  /\ req' = [req EXCEPT !.pc = "generated",
               !.response = generate_response(req.query, req.pinecone_results,
                                              req.neo4j_results, outcome),
               !.response_time = now' - now,
               !.total_time = now' - req.search_start]
  /\ obs' = [obs EXCEPT !.completion_calls = @ + 1,
               !.completion_error = IF outcome.ok THEN <<>> ELSE <<outcome.msg>>,
               !.completion_answer = IF outcome.ok THEN <<outcome.text>> ELSE <<>>]
  /\ UNCHANGED <<embedding_cache, ret, requests>>
  /\ UNCHANGED <<status, app>>
  /\ UnchangedSystem /\ UnchangedHarness

\* Mutant: only the two best matches are returned.
ReturnValueTopTwo(r) ==
  [status |-> "returned", pinecone_results |-> Take(r.pinecone_results, 2),
   neo4j_results |-> r.neo4j_results, response |-> r.response,
   total_time |-> r.total_time, exc |-> ""]

\* The tuple process_query_with_metrics returns.
ReturnValue(r) ==
  [status |-> "returned", pinecone_results |-> r.pinecone_results,
   neo4j_results |-> r.neo4j_results, response |-> r.response,
   total_time |-> r.total_time, exc |-> ""]

\* return pinecone_results, neo4j_results, response, total_time
Return ==
  /\ req.pc = "generated"
  /\ req' = [req EXCEPT !.pc = "returned"]
  /\ ret' = ReturnValue(req)
  /\ UNCHANGED <<embedding_cache, now, requests, obs>>
  /\ UNCHANGED <<status, app>>
  /\ UnchangedSystem /\ UnchangedHarness

\* The caller has the result (or the exception); the system is idle again.
\* Time is observed through differences only, so the clock is re-based.
Finish ==
  /\ req.pc \in {"returned", "raised"}
  /\ req' = IdleReq
  /\ ret' = NoRet
  /\ obs' = NoObs
  /\ now' = 0
  /\ requests' = requests + 1
  /\ status' = NoStatus
  /\ app' = NoApp
  /\ UNCHANGED <<embedding_cache>>
  /\ UnchangedSystem /\ UnchangedHarness

\* ------------------------------------------------------ get_system_status
\* config.GROQ_API_KEY of a deployment that can call the completion provider.
GROQ_API_KEY == "gsk"

\* Mutant: the index and the embedding model are reported as the request in
\* flight found them.
get_system_status_tracks_failures(driver, reachable) ==
  [pinecone_connected |-> ~obs.index_failed,
   neo4j_connected |-> IF DriverTruthy(driver) THEN reachable
                       ELSE driver # "None",
   groq_configured |-> GROQ_API_KEY # "",
   embedding_model_loaded |-> ~obs.provider_failed]

\* Mutant: the driver reference alone decides, connectivity is not verified.
get_system_status_noverify(driver, reachable) ==
  [pinecone_connected |-> TRUE, neo4j_connected |-> driver # "None",
   groq_configured |-> GROQ_API_KEY # "", embedding_model_loaded |-> TRUE]

\* get_system_status(); reachable = verify_connectivity() does not raise.
get_system_status(driver, reachable) ==
  [pinecone_connected |-> TRUE,
   neo4j_connected |-> IF DriverTruthy(driver) THEN reachable
                       ELSE driver # "None",
   groq_configured |-> GROQ_API_KEY # "", embedding_model_loaded |-> TRUE]

\* Mutant: a failed connectivity check drops the driver.
GetSystemStatusDropsDriver(reachable) ==
  /\ DriverTruthy(neo4j_driver) \/ ~reachable
  /\ status' = [called |-> TRUE, reachable |-> reachable, at |-> req.pc,
                result |-> get_system_status(neo4j_driver, reachable)]
  /\ neo4j_driver' = IF reachable THEN neo4j_driver ELSE "None"
  /\ UNCHANGED <<embedding_cache, model_dim, system_prompt, req, ret, now,
                 requests, obs, app>>
  /\ UnchangedHarness

\* A call of get_system_status(), at any point of a request or between
\* requests (the sidebar of the app calls it on every rerun).  Without a
\* driver no connectivity check is made.
GetSystemStatus(reachable) ==
  /\ DriverTruthy(neo4j_driver) \/ ~reachable
  /\ status' = [called |-> TRUE, reachable |-> reachable, at |-> req.pc,
                result |-> get_system_status(neo4j_driver, reachable)]
  /\ UNCHANGED <<embedding_cache, req, ret, now, requests, obs, app>>
  /\ UnchangedSystem /\ UnchangedHarness

\* ---------------------------------- StreamlitTravelApp.process_user_query
\* total_time * 0.6, in tenths of a clock tick.
SixTenths(t) == 6 * t

\* Mutant: a response that is an apology is reported as an error.
process_user_query_apology_is_error(r) ==
  IF r.status = "returned" /\ Head(r.response) # GroqApology
    THEN [status |-> "ok", pinecone_results |-> r.pinecone_results,
          neo4j_results |-> r.neo4j_results, response |-> r.response,
          metrics |-> [vector_results |-> Len(r.pinecone_results),
                       graph_results |-> Len(r.neo4j_results),
                       search_time |-> SixTenths(r.total_time),
                       total_time |-> r.total_time],
          error |-> <<>>]
    ELSE [status |-> "error", pinecone_results |-> <<>>, neo4j_results |-> <<>>,
          response |-> <<>>, metrics |-> <<>>,
          error |-> <<"Error processing query: ", r.exc>>]

\* What process_user_query returns once process_query_with_metrics has
\* returned r, or raised: results, metrics and no error, or the error text.
\* metrics.search_time is in tenths of a clock tick.
process_user_query(r) ==
  IF r.status = "returned"
    THEN [status |-> "ok", pinecone_results |-> r.pinecone_results,
          neo4j_results |-> r.neo4j_results, response |-> r.response,
          metrics |-> [vector_results |-> Len(r.pinecone_results),
                       graph_results |-> Len(r.neo4j_results),
                       search_time |-> SixTenths(r.total_time),
                       total_time |-> r.total_time],
          error |-> <<>>]
    ELSE [status |-> "error", pinecone_results |-> <<>>, neo4j_results |-> <<>>,
          response |-> <<>>, metrics |-> <<>>,
          error |-> <<"Error processing query: ", r.exc>>]

\* The caller is process_user_query: its try block ends, or its except
\* branch catches what process_query_with_metrics raised.
ProcessUserQuery ==
  /\ req.pc \in {"returned", "raised"}
  /\ app = NoApp
  /\ app' = process_user_query(ret)
  /\ UNCHANGED <<embedding_cache, req, ret, now, requests, obs, status>>
  /\ UnchangedSystem /\ UnchangedHarness

Delays == 0..MaxDelay

\* The steps of the requests, with backend calls that last any of delays.
RequestSteps(delays) ==
  \/ \E q \in Queries : ProcessQueryStart(q)
  \/ EmbedRaise
  \/ \E ok \in BOOLEAN : EmbedQuery(ok)
  \/ \E o \in IndexOutcomes, d \in delays : PineconeQuery(o, d)
  \/ Neo4jExtract
  \/ \E o \in GraphOutcomes, d \in delays : Neo4jQuery(o, d)
  \/ Neo4jAbsent
  \/ SearchReturn
  \/ \E o \in CompletionOutcomes, d \in delays : GenerateResponse(o, d)
  \/ Return
  \/ ProcessUserQuery
  \/ Finish

Next == RequestSteps(Delays)

Spec == Init /\ [][Next]_vars

\* Requests with get_system_status called at any point; the durations of the
\* backend calls play no part here.
NextStatus ==
  \/ RequestSteps({0})
  \/ \E reachable \in BOOLEAN : GetSystemStatus(reachable)

SpecStatus == Init /\ [][NextStatus]_vars

\* The steps a started request takes by itself: the event loop runs the
\* coroutine of process_query_with_metrics, the only one there is, up to its
\* next blocking call.
ProgramSteps ==
  \/ EmbedRaise
  \/ Neo4jExtract
  \/ Neo4jAbsent
  \/ SearchReturn
  \/ Return

\* The returns of the calls a request makes to its providers: the embedding
\* model, the vector index, the graph store and the completion provider.
ProviderReturns ==
  \/ \E ok \in BOOLEAN : EmbedQuery(ok)
  \/ \E o \in IndexOutcomes : PineconeQuery(o, MaxDelay)
  \/ \E o \in GraphOutcomes : Neo4jQuery(o, MaxDelay)
  \/ \E o \in CompletionOutcomes : GenerateResponse(o, MaxDelay)

\* Requests whose backend calls are all slow (each lasts MaxDelay).
NextLive == RequestSteps({MaxDelay})

\* Slow requests whose provider calls all return: the program keeps running,
\* and no provider call hangs for ever.
SpecLive ==
  Init /\ [][NextLive]_vars /\ WF_vars(ProgramSteps \/ ProviderReturns)

\* ------------------------------------------------------ the cache harness
\* Direct calls of get_cached_embedding and get_embeddings, one after the
\* other, on a system whose model has any of these output dimensions.
ModelDims == {384, EMBEDDING_DIM, TargetDim - 1, TargetDim, TargetDim + 1}

TextLists ==
  {<<>>, <<"beach">>, <<"romantic 4 day itinerary", "beach">>}

UnchangedRequest ==
  UNCHANGED <<req, ret, now, obs, status, app, fn_call, prompts,
              session_state>>

CallGetCachedEmbedding(text, ok) ==
  /\ requests < MaxCalls
  /\ Encodable(text)
  /\ \E r \in {get_cached_embedding(embedding_cache, text, ok, model_dim)} :
       /\ r.miss \/ ok
       /\ embedding_cache' = r.cache
       /\ provider_calls' =
            [provider_calls EXCEPT ![text] = IF r.miss THEN @ + 1 ELSE @]
       /\ computed_vecs' =
            [computed_vecs EXCEPT
               ![text] = IF r.miss THEN @ \cup {r.embedding} ELSE @]
       /\ returned_vecs' = [returned_vecs EXCEPT ![text] = @ \cup {r.embedding}]
       /\ last_call' = [fn |-> "get_cached_embedding", texts |-> <<text>>,
                        ok |-> ok, hit |-> ~r.miss, raised |-> FALSE,
                        result |-> <<r.embedding>>]
  /\ requests' = requests + 1
  /\ UNCHANGED th
  /\ UnchangedSystem /\ UnchangedRequest

\* text.encode() raises before the cache is consulted.
CallGetCachedEmbeddingRaise(text) ==
  /\ requests < MaxCalls
  /\ ~Encodable(text)
  /\ last_call' = [fn |-> "get_cached_embedding", texts |-> <<text>>,
                   ok |-> TRUE, hit |-> FALSE, raised |-> TRUE, result |-> <<>>]
  /\ requests' = requests + 1
  /\ UNCHANGED <<embedding_cache, provider_calls, computed_vecs, returned_vecs, th>>
  /\ UnchangedSystem /\ UnchangedRequest

\* The module-level get_embeddings(texts); with no texts the model is not run.
CallGetEmbeddings(texts, ok) ==
  /\ requests < MaxCalls
  /\ texts # <<>> \/ ok
  /\ last_call' = [fn |-> "get_embeddings", texts |-> texts, ok |-> ok,
                   hit |-> FALSE, raised |-> FALSE,
                   result |-> get_embeddings(texts, ok, model_dim)]
  /\ requests' = requests + 1
  /\ UNCHANGED <<embedding_cache, provider_calls, computed_vecs, returned_vecs, th>>
  /\ UnchangedSystem /\ UnchangedRequest

\* The calls of the harness do not read neo4j_driver.
InitCache ==
  /\ InitSystem
  /\ neo4j_driver = "None"
  /\ model_dim \in ModelDims
  /\ fn_call = NoFnCall

NextCache ==
  \/ \E t \in Queries, ok \in BOOLEAN : CallGetCachedEmbedding(t, ok)
  \/ \E t \in Queries : CallGetCachedEmbeddingRaise(t)
  \/ \E texts \in TextLists, ok \in BOOLEAN : CallGetEmbeddings(texts, ok)

SpecCache == InitCache /\ [][NextCache]_vars

\* ------------------------------------------- the concurrent cache harness
\* Threads that each call get_cached_embedding once on the shared cache and
\* are switched between any two statements (a dict operation is atomic).
UnchangedObservedCalls == UNCHANGED <<provider_calls, computed_vecs, returned_vecs>>

\* text_hash = hashlib.md5(text.encode()).hexdigest()
T_Hash(i, text) ==
  /\ th[i].pc = "idle"
  /\ Encodable(text)
  /\ th' = [th EXCEPT ![i] = [IdleThread EXCEPT !.pc = "hashed", !.text = text,
                                !.text_hash = MD5(text)]]
  /\ UNCHANGED <<embedding_cache, requests, last_call>>
  /\ UnchangedObservedCalls /\ UnchangedSystem /\ UnchangedRequest

T_HashRaise(i, text) ==
  /\ th[i].pc = "idle"
  /\ ~Encodable(text)
  /\ th' = [th EXCEPT ![i] = [IdleThread EXCEPT !.pc = "raised", !.text = text]]
  /\ UNCHANGED <<embedding_cache, requests, last_call>>
  /\ UnchangedObservedCalls /\ UnchangedSystem /\ UnchangedRequest

\* if text_hash in self.embedding_cache:
T_Test(i) ==
  /\ th[i].pc = "hashed"
  /\ th' = [th EXCEPT ![i].pc = IF th[i].text_hash \in DOMAIN embedding_cache
                                  THEN "hit" ELSE "miss"]
  /\ UNCHANGED <<embedding_cache, requests, last_call>>
  /\ UnchangedObservedCalls /\ UnchangedSystem /\ UnchangedRequest

\* return self.embedding_cache[text_hash]
T_ReturnCached(i) ==
  /\ th[i].pc = "hit"
  /\ th' = [th EXCEPT ![i].pc = "done",
                      ![i].result = embedding_cache[th[i].text_hash]]
  /\ returned_vecs' = [returned_vecs EXCEPT
                         ![th[i].text] = @ \cup {embedding_cache[th[i].text_hash]}]
  /\ UNCHANGED <<embedding_cache, requests, last_call, provider_calls, computed_vecs>>
  /\ UnchangedSystem /\ UnchangedRequest

\* embedding = get_embeddings([text])[0]
T_Compute(i, ok) ==
  /\ th[i].pc = "miss"
  /\ \E embedding \in {get_embeddings(<<th[i].text>>, ok, model_dim)[1]} :
       /\ th' = [th EXCEPT ![i].pc = "computed", ![i].embedding = embedding]
       /\ provider_calls' = [provider_calls EXCEPT ![th[i].text] = @ + 1]
       /\ computed_vecs' = [computed_vecs EXCEPT ![th[i].text] = @ \cup {embedding}]
  /\ UNCHANGED <<embedding_cache, requests, last_call, returned_vecs>>
  /\ UnchangedSystem /\ UnchangedRequest

\* self.embedding_cache[text_hash] = embedding
T_Store(i) ==
  /\ th[i].pc = "computed"
  /\ embedding_cache' = CacheStore(embedding_cache, th[i].text_hash, th[i].embedding)
  /\ th' = [th EXCEPT ![i].pc = "stored"]
  /\ UNCHANGED <<requests, last_call>>
  /\ UnchangedObservedCalls /\ UnchangedSystem /\ UnchangedRequest

\* return embedding
T_Return(i) ==
  /\ th[i].pc = "stored"
  /\ th' = [th EXCEPT ![i].pc = "done", ![i].result = th[i].embedding]
  /\ returned_vecs' = [returned_vecs EXCEPT ![th[i].text] = @ \cup {th[i].embedding}]
  /\ UNCHANGED <<embedding_cache, requests, last_call, provider_calls, computed_vecs>>
  /\ UnchangedSystem /\ UnchangedRequest

NextConc ==
  \/ \E i \in Threads, t \in Queries : T_Hash(i, t)
  \/ \E i \in Threads, t \in Queries : T_HashRaise(i, t)
  \/ \E i \in Threads : T_Test(i)
  \/ \E i \in Threads : T_ReturnCached(i)
  \/ \E i \in Threads, ok \in BOOLEAN : T_Compute(i, ok)
  \/ \E i \in Threads : T_Store(i)
  \/ \E i \in Threads : T_Return(i)

SpecConc == Init /\ [][NextConc]_vars

\* -------------------------------------------------- direct calls of methods
\* One method of the system called directly on arguments drawn at the start.
UnchangedButCall ==
  UNCHANGED <<neo4j_driver, embedding_cache, model_dim, req, ret, now,
              requests, obs, provider_calls, computed_vecs, returned_vecs,
              last_call, th, system_prompt, status, app, prompts,
              session_state>>

\* query_neo4j_async(query) with the driver set, on a graph store of at most
\* MaxNodes nodes.
GraphStores == {s \in SUBSET LocationPool : Cardinality(s) <= MaxNodes}
GraphQueries == {Chars("beach"), Chars("romantic 4 day itinerary"), Chars("hello")}

InitGraph ==
  /\ InitSystem
  /\ neo4j_driver = "Driver"
  /\ model_dim = EMBEDDING_DIM
  /\ fn_call \in {[fn |-> "query_neo4j_async", store |-> s, query |-> q,
                    done |-> FALSE, ok |-> TRUE, result |-> <<>>] :
                     s \in GraphStores, q \in GraphQueries}

\* ok = session.run did not raise.
CallQueryNeo4j(ok) ==
  /\ fn_call.fn = "query_neo4j_async"
  /\ ~fn_call.done
  /\ DriverTruthy(neo4j_driver)
  /\ \E rows \in IF ok
                   THEN CypherResults(fn_call.store,
                                      extract_key_terms(fn_call.query))
                   ELSE {Neo4jOnError.records} :
       fn_call' = [fn_call EXCEPT !.done = TRUE, !.ok = ok,
                     !.result = [k \in 1..Len(rows) |-> RecordData(rows[k])]]
  /\ UnchangedButCall

NextGraph == \E ok \in BOOLEAN : CallQueryNeo4j(ok)

SpecGraph == InitGraph /\ [][NextGraph]_vars

\* extract_key_terms(query) on the queries put together from these fragments.
TermFragments ==
  {Chars("Create a romantic "), Chars("4 day "), Chars("itinerary"),
   Chars("4-day "), Chars("3days"), Chars("12  day"), Chars("9"),
   Chars("HALONG"), Chars("ha long "), Chars("hello "), Chars("7 DAY")}

RECURSIVE Concat(_)
Concat(parts) == IF parts = <<>> THEN <<>> ELSE Head(parts) \o Concat(Tail(parts))

TermQueries ==
  {Concat(parts) :
     parts \in UNION {[1..n -> TermFragments] : n \in 0..MaxFragments}}

InitTerms ==
  /\ InitSystem
  /\ neo4j_driver = "Driver"
  /\ model_dim = EMBEDDING_DIM
  /\ fn_call \in {[fn |-> "extract_key_terms", query |-> q, done |-> FALSE,
                    result |-> <<>>] : q \in TermQueries}

CallExtractKeyTerms ==
  /\ fn_call.fn = "extract_key_terms"
  /\ ~fn_call.done
  /\ fn_call' = [fn_call EXCEPT !.done = TRUE,
                   !.result = extract_key_terms(fn_call.query)]
  /\ UnchangedButCall

NextTerms == CallExtractKeyTerms

SpecTerms == InitTerms /\ [][NextTerms]_vars

\* build_prompt(user_query, pinecone_matches, graph_facts) on lists of up to
\* MaxMatches matches and MaxFacts facts, and on lists that hold an item with
\* any subset of its fields missing.
MatchList(n) == [i \in 1..n |-> <<M1, M2, M3>>[((i - 1) % 3) + 1]]
FactList(n) == [i \in 1..n |-> RecordData(<<R1, R2>>[((i - 1) % 2) + 1])]

MetadataFields ==
  {"name", "type", "region", "description", "semantic_text", "tags",
   "best_time_to_visit"}
FactFields ==
  {"name", "type", "region", "description", "tags", "nearby_locations"}

MalformedMatches ==
  {Without([M1 EXCEPT !.metadata = Without(M1.metadata, missing)], top) :
     missing \in SUBSET MetadataFields, top \in SUBSET {"metadata", "score"}}
MalformedFacts ==
  {Without(RecordData(R1), missing) : missing \in SUBSET FactFields}

PromptInputs ==
  {[matches |-> MatchList(n), facts |-> FactList(k)] :
     n \in 0..MaxMatches, k \in 0..MaxFacts}
  \cup {[matches |-> <<M2, bad>>, facts |-> FactList(1)] :
          bad \in MalformedMatches}
  \cup {[matches |-> MatchList(1), facts |-> <<RecordData(R2), bad>>] :
          bad \in MalformedFacts}

InitPrompt ==
  /\ InitSystem
  /\ neo4j_driver = "Driver"
  /\ model_dim = EMBEDDING_DIM
  /\ fn_call \in {[fn |-> "build_prompt", query |-> q, matches |-> in.matches,
                    facts |-> in.facts, done |-> FALSE, result |-> <<>>] :
                     q \in GoodQueries, in \in PromptInputs}

CallBuildPrompt ==
  /\ fn_call.fn = "build_prompt"
  /\ ~fn_call.done
  /\ fn_call' = [fn_call EXCEPT !.done = TRUE,
                   !.result = build_prompt(fn_call.query, fn_call.matches,
                                           fn_call.facts)]
  /\ UnchangedButCall

NextPrompt == CallBuildPrompt

SpecPrompt == InitPrompt /\ [][NextPrompt]_vars

\* Calls of build_prompt on the caller's argument objects, one after the
\* other, with get_cached_embedding calls (which change the cache) in between.
PromptArguments ==
  <<[query |-> "beach", matches |-> MatchList(0), facts |-> FactList(0)],
    [query |-> "beach", matches |-> MatchList(3), facts |-> FactList(2)],
    [query |-> "romantic 4 day itinerary", matches |-> MatchList(3),
     facts |-> FactList(2)]>>

InitPromptSeq ==
  /\ InitSystem
  /\ model_dim = EMBEDDING_DIM
  /\ fn_call = [fn |-> "build_prompt", arguments |-> PromptArguments,
                last |-> 0, result |-> <<>>, seen |-> {}]

\* build_prompt(*arguments[i]): the slices copy, nothing is assigned to an
\* argument or to an attribute of self.  seen notes the size of the cache at
\* each call.
CallBuildPromptSeq(i) ==
  /\ fn_call.fn = "build_prompt"
  /\ requests < MaxCalls
  /\ \E r \in {build_prompt(fn_call.arguments[i].query,
                             fn_call.arguments[i].matches,
                             fn_call.arguments[i].facts)} :
       /\ fn_call' = [fn_call EXCEPT !.last = i, !.result = r,
                        !.seen = @ \cup {<<i, Cardinality(DOMAIN embedding_cache)>>}]
       /\ prompts' = [k \in (DOMAIN prompts) \cup {i} |->
                        IF k # i THEN prompts[k]
                        ELSE IF i \in DOMAIN prompts THEN prompts[i] \cup {r}
                        ELSE {r}]
  /\ requests' = requests + 1
  /\ UNCHANGED <<neo4j_driver, embedding_cache, model_dim, req, ret, now, obs,
                 provider_calls, computed_vecs, returned_vecs, last_call, th,
                 system_prompt, status, app, session_state>>

NextPromptSeq ==
  \/ \E i \in DOMAIN PromptArguments : CallBuildPromptSeq(i)
  \/ \E t \in GoodQueries, ok \in BOOLEAN : CallGetCachedEmbedding(t, ok)

SpecPromptSeq == InitPromptSeq /\ [][NextPromptSeq]_vars

\* ------------------------------------------------ StreamlitTravelApp.run
\* The quick queries of the sidebar.
quick_queries ==
  <<"Create a romantic 4 day itinerary for Vietnam",
    "Best beach destinations in Vietnam",
    "Adventure activities in northern Vietnam",
    "Cultural and historical sites in central Vietnam",
    "Budget travel options in Vietnam",
    "Luxury honeymoon destinations in Vietnam",
    "Family-friendly activities in Vietnam",
    "Best food experiences in Vietnam">>

\* process_user_query of an app whose chat_system is "None" or "System"; r is
\* what process_query_with_metrics hands back when it is called.
process_user_query_of(chat_system, r) ==
  IF chat_system = "None"
    THEN [status |-> "error", pinecone_results |-> <<>>, neo4j_results |-> <<>>,
          response |-> <<>>, metrics |-> <<>>,
          error |-> <<"System not initialized">>]
    ELSE process_user_query(r)

\* The dict run stores in st.session_state.last_response.
LastResponse(user_input, result) ==
  [query |-> user_input, response |-> result.response,
   pinecone_results |-> result.pinecone_results,
   neo4j_results |-> result.neo4j_results, metrics |-> result.metrics]

\* The sidebar: a click on quick query number click (0: no click).
display_sidebar(session, click) ==
  IF click = 0 THEN session
  ELSE [session EXCEPT !.user_input = quick_queries[click],
                       !.process_query = TRUE]

\* What st.text_input returns: the text typed, or the clicked quick query,
\* which is the widget's new value.
TextInput(click, typed) == IF click = 0 THEN typed ELSE quick_queries[click]

\* Mutant: the result is stored before its error is looked at.
run_stores_unchecked(session, click, submit_button, typed, chat_system, raised, r) ==
  LET s1 == display_sidebar(session, click)
      user_input == TextInput(click, typed)
      s2 == [s1 EXCEPT !.process_query = FALSE, !.user_input = user_input]
      result == process_user_query_of(chat_system, r)
  IN IF ~((submit_button \/ s1.process_query) /\ user_input # "")
       THEN [session |-> s1, processed |-> FALSE, called |-> FALSE]
     ELSE IF chat_system = "None"
       THEN [session |-> s2, processed |-> TRUE, called |-> FALSE]
     ELSE IF raised
       THEN [session |-> s2, processed |-> TRUE, called |-> TRUE]
     ELSE [session |-> [s2 EXCEPT !.last_response =
                                     LastResponse(user_input, result)],
           processed |-> TRUE, called |-> TRUE]

\* One run of StreamlitTravelApp.run on st.session_state = session: the
\* sidebar, the text input, and the processing of a submission.  raised = the
\* call asyncio.run(self.process_user_query(user_input)) raises.  processed =
\* the branch of line 476 was taken, called = process_user_query was called.
run(session, click, submit_button, typed, chat_system, raised, r) ==
  LET s1 == display_sidebar(session, click)
      user_input == TextInput(click, typed)
      s2 == [s1 EXCEPT !.process_query = FALSE, !.user_input = user_input]
      result == process_user_query_of(chat_system, r)
  IN IF ~((submit_button \/ s1.process_query) /\ user_input # "")
       THEN [session |-> s1, processed |-> FALSE, called |-> FALSE]
     ELSE IF chat_system = "None"
       THEN [session |-> s2, processed |-> TRUE, called |-> FALSE]
     ELSE IF raised
       THEN [session |-> s2, processed |-> TRUE, called |-> TRUE]
     ELSE IF result.error # <<>>
       THEN [session |-> s2, processed |-> TRUE, called |-> TRUE]
     ELSE [session |-> [s2 EXCEPT !.last_response =
                                     LastResponse(user_input, result)],
           processed |-> TRUE, called |-> TRUE]

\* The texts typed into the input, and the quick queries clicked, in the model.
TypedTexts == {"", "beach", SurrogateQuery}
Clicks == 0..MaxQuick

\* What process_query_with_metrics hands back for text: it raises for a text
\* that cannot be encoded and returns what it found and the response, the
\* completion's text or its apology, for any other.
RunReturns(text) ==
  IF Encodable(text)
    THEN {ReturnValue([IdleReq EXCEPT !.pinecone_results = MatchList(3),
                                       !.neo4j_results = f, !.response = t,
                                       !.total_time = MaxDelay]) :
            f \in {<<>>, FactList(2)},
            t \in {<<"Day 1: Hanoi">>, <<GroqApology, "timeout">>}}
    ELSE {[NoRet EXCEPT !.status = "raised", !.exc = "UnicodeEncodeError"]}

InitApp ==
  /\ InitSystem
  /\ model_dim = EMBEDDING_DIM
  /\ fn_call = [fn |-> "run", chat_system |-> "None", processed |-> FALSE,
                called |-> FALSE, raised |-> FALSE, result |-> NoApp]

\* A rerun of the script: main() builds a new StreamlitTravelApp, whose
\* chat_system is set or None, and calls run(); st.session_state is what the
\* last run left.  At most one button is clicked per rerun.
Run(click, submit_button, typed, chat_system, raised) ==
  /\ fn_call.fn = "run"
  /\ click = 0 \/ ~submit_button
  /\ \E r \in RunReturns(TextInput(click, typed)) :
       \E out \in {run(session_state, click, submit_button, typed, chat_system,
                       raised, r)} :
         /\ session_state' = out.session
         /\ fn_call' = [fn |-> "run", chat_system |-> chat_system,
                        processed |-> out.processed, called |-> out.called,
                        raised |-> out.called /\ raised,
                        result |-> IF out.called /\ ~raised
                                     THEN process_user_query_of(chat_system, r)
                                     ELSE NoApp]
  /\ UNCHANGED <<neo4j_driver, embedding_cache, model_dim, req, ret, now,
                 requests, obs, provider_calls, computed_vecs, returned_vecs,
                 last_call, th, system_prompt, status, app, prompts>>

NextApp ==
  \E click \in Clicks, submit_button \in BOOLEAN,
     typed \in TypedTexts \cup {session_state.user_input},
     chat_system \in {"None", "System"}, raised \in BOOLEAN :
    Run(click, submit_button, typed, chat_system, raised)

SpecApp == InitApp /\ [][NextApp]_vars

\* --------------------------------------- PineconeUploader.upload_vectors
\* The vector lists and batch sizes of the model: at most MaxVectors vectors,
\* each of 1024 or of 768 values, numbered in the order of the list.
VectorLists ==
  UNION {{[k \in 1..n |-> [id |-> k, values |-> Zeros(dims[k])]] :
            dims \in [1..n -> {PINECONE_TARGET_DIM, EMBEDDING_DIM}]} :
           n \in 0..MaxVectors}
BatchSizes == 1..MaxBatch

\* vectors[i:i + batch_size], i counted from 0.
Slice(vectors, i, batch_size) ==
  SubSeq(vectors, i + 1, Min(Len(vectors), i + batch_size))

\* Mutant: the batch is sent whatever the dimension of its first vector.
BatchOutcomeUnverified(batch, ok) == IF ok THEN "upserted" ELSE "failed"

\* The body of the loop for one batch; ok = self.index.upsert does not raise.
BatchOutcome(batch, ok) ==
  IF batch # <<>> /\ Len(batch[1].values) # 1024 THEN "mismatch"
  ELSE IF ok THEN "upserted" ELSE "failed"

\* upload_vectors(vectors, batch_size) is called: an empty list returns 0 at
\* once, any other enters the loop with i = 0.
InitUpload ==
  /\ InitSystem
  /\ model_dim = EMBEDDING_DIM
  /\ fn_call \in {[fn |-> "upload_vectors", vectors |-> v, batch_size |-> b,
                    i |-> 0, successful_uploads |-> 0, batches |-> <<>>,
                    done |-> v = <<>>, result |-> 0] :
                     v \in VectorLists, b \in BatchSizes}

\* One iteration of the loop.  batches notes each batch and what became of it.
UploadBatch(ok) ==
  /\ fn_call.fn = "upload_vectors"
  /\ ~fn_call.done
  /\ fn_call.i < Len(fn_call.vectors)
  /\ LET batch == Slice(fn_call.vectors, fn_call.i, fn_call.batch_size)
         outcome == BatchOutcome(batch, ok)
     IN /\ outcome = "mismatch" => ok   \* no upsert is made: nothing to fail
        /\ fn_call' = [fn_call EXCEPT
                         !.i = @ + fn_call.batch_size,
                         !.successful_uploads =
                            IF outcome = "upserted" THEN @ + Len(batch) ELSE @,
                         !.batches = Append(@, [batch |-> batch,
                                                outcome |-> outcome])]
  /\ UnchangedButCall

\* The loop is over: return successful_uploads.
UploadReturn ==
  /\ fn_call.fn = "upload_vectors"
  /\ ~fn_call.done
  /\ fn_call.i >= Len(fn_call.vectors)
  /\ fn_call' = [fn_call EXCEPT !.done = TRUE,
                   !.result = fn_call.successful_uploads]
  /\ UnchangedButCall

NextUpload ==
  \/ \E ok \in BOOLEAN : UploadBatch(ok)
  \/ UploadReturn

SpecUpload == InitUpload /\ [][NextUpload]_vars

\* ================================================================ claims
ApologyFormats == {GroqApology, GenerateApology}

\* What the search of the request in flight found, from the backends' answers.
FoundMatches == IF obs.index_failed THEN <<>> ELSE obs.index_answer
FoundFacts ==
  IF obs.graph_failed THEN <<>>
  ELSE [k \in 1..Len(obs.graph_answer) |-> RecordData(obs.graph_answer[k])]

\* C1 (as claimed): with the graph store configured, the graph query has been
\* started by the time the vector query has completed, so that the two backend
\* calls of one request overlap.
C1_GraphStartedBeforeVectorDone ==
  (neo4j_driver # "None" /\ req.pinecone_task = "done")
    => req.neo4j_task \in {"running", "done"}

\* C2: with neo4j_driver None, no request extracts key terms or queries the
\* graph store, and every request that returns returns empty graph_facts.
C2_AbsentGraphNeverQueried ==
  neo4j_driver = "None" =>
    /\ obs.extract_calls = 0
    /\ obs.graph_queries = 0
    /\ req.key_terms = <<>>
    /\ req.neo4j_task \notin {"running", "done"}
    /\ req.neo4j_results = <<>>
    /\ ret.neo4j_results = <<>>

C2_Witness ==
  /\ neo4j_driver = "None"
  /\ requests = 1
  /\ ret.status = "returned"
  /\ Len(ret.pinecone_results) = 3

\* C3: a failed index query yields [] from query_pinecone_async instead of an
\* exception; the request goes on, the graph query (when configured) and the
\* completion call are made, and the request returns empty vector matches.
C3_IndexFailureDegrades ==
  obs.index_failed =>
    /\ req.pc # "raised"
    /\ ret.status # "raised"
    /\ req.pinecone_task = "done"
    /\ req.pinecone_results = <<>>
    /\ (req.pc = "returned" =>
          /\ ret.status = "returned"
          /\ ret.pinecone_results = <<>>
          /\ obs.completion_calls = 1
          /\ (neo4j_driver # "None" => obs.graph_queries = 1))

C3_Witness ==
  /\ obs.index_failed
  /\ req.pc = "returned"
  /\ neo4j_driver # "None"
  /\ Len(ret.neo4j_results) = 2
  /\ obs.completion_error = <<>>

\* C4: with the graph store configured, a failed graph query (or session)
\* yields [] from query_neo4j_async instead of an exception; the vector
\* matches of the request are still returned and the completion call is made.
C4_GraphFailureDegrades ==
  obs.graph_failed =>
    /\ req.pc # "raised"
    /\ ret.status # "raised"
    /\ req.neo4j_task = "done"
    /\ req.neo4j_results = <<>>
    /\ req.pinecone_results = FoundMatches
    /\ (req.pc = "returned" =>
          /\ ret.status = "returned"
          /\ ret.neo4j_results = <<>>
          /\ ret.pinecone_results = FoundMatches
          /\ obs.completion_calls = 1)

C4_Witness ==
  /\ obs.graph_failed
  /\ req.pc = "returned"
  /\ Len(ret.pinecone_results) = 3

\* C5: when the completion provider raises with message m, the request still
\* returns: the response is an apology format with m embedded, the matches and
\* facts are those the search found, and total_time is a measured time.
C5_CompletionFailureApology ==
  obs.completion_error # <<>> =>
    /\ req.pc \in {"generated", "returned"}
    /\ ret.status # "raised"
    /\ \E a \in ApologyFormats : req.response = <<a, obs.completion_error[1]>>
    /\ req.pc = "returned" =>
         /\ ret.status = "returned"
         /\ \E a \in ApologyFormats : ret.response = <<a, obs.completion_error[1]>>
         /\ ret.pinecone_results = FoundMatches
         /\ ret.neo4j_results = FoundFacts
         /\ ret.total_time # NoTime
         /\ ret.total_time = now - req.search_start

C5_Witness ==
  /\ obs.completion_error = <<"timeout">>
  /\ req.pc = "returned"
  /\ Len(ret.pinecone_results) = 3
  /\ Len(ret.neo4j_results) = 2
  /\ ret.total_time > 0

\* C6 (as claimed): no exception escapes process_query_with_metrics; whatever
\* is raised in a stage is caught at the facade and returned as an error result.
C6_NoExceptionEscapes == ret.status # "raised"

\* C7 (as claimed): when the provider fails for a text, get_cached_embedding
\* raises and embedding_cache gets no entry for that text.
C7_FailureNotCached ==
  obs.provider_failed =>
    /\ req.pc = "raised"
    /\ MD5(req.query) \notin DOMAIN embedding_cache

\* C8: in a sequence of get_cached_embedding calls, two calls with the same
\* text return the same vector, the provider runs at most once per text and
\* not at all on a hit, and a stored entry is never removed or changed.
C8_StateOK ==
  \A t \in GoodQueries :
    /\ provider_calls[t] <= 1
    /\ Cardinality(returned_vecs[t]) <= 1

C8_StepOK ==
  /\ \A h \in DOMAIN embedding_cache :
       /\ h \in DOMAIN embedding_cache'
       /\ embedding_cache'[h] = embedding_cache[h]
  /\ \A t \in GoodQueries :
       MD5(t) \in DOMAIN embedding_cache => provider_calls'[t] = provider_calls[t]

C8_CacheCorrect == [](C8_StateOK) /\ [][C8_StepOK]_vars

C8_Witness ==
  /\ last_call.fn = "get_cached_embedding"
  /\ last_call.hit
  /\ provider_calls[last_call.texts[1]] = 1
  /\ requests = 3

\* The vector v is an output of get_embeddings for the text: the model's
\* output padded or truncated, or the all-zero fallback.
ProviderVector(text, v) ==
  \/ \A i \in 1..TargetDim :
       v[i] = IF i <= model_dim THEN EncodeValue(text, i) ELSE 0
  \/ \A i \in 1..TargetDim : v[i] = 0

\* C9: under every interleaving of concurrent get_cached_embedding calls, each
\* call returns a vector the provider computed for its own text, and every
\* entry of embedding_cache is a vector computed for a text with that digest;
\* a race may only make the provider run more than once for a text.
C9_NoCorruption ==
  /\ \A i \in Threads :
       th[i].pc = "done" =>
         /\ th[i].result \in computed_vecs[th[i].text]
         /\ Len(th[i].result) = TargetDim
         /\ ProviderVector(th[i].text, th[i].result)
  /\ \A t \in GoodQueries : returned_vecs[t] \subseteq computed_vecs[t]
  /\ \A h \in DOMAIN embedding_cache :
       \E t \in GoodQueries :
         /\ MD5(t) = h
         /\ embedding_cache[h] \in computed_vecs[t]

C9_Witness ==
  /\ th[1].pc = "done"
  /\ th[2].pc = "done"
  /\ th[1].text = th[2].text
  /\ provider_calls[th[1].text] = 2
  /\ th[1].result # th[2].result

\* C10: every vector get_embeddings and get_cached_embedding return, and every
\* cached vector, has length 1024, the configured target dimension: the
\* model's output is kept as a prefix (all of it when shorter, its first 1024
\* components when longer) and the rest is zeros; the fallback is all zeros.
PaddedFrom(e, v) ==
  /\ Len(v) = PINECONE_TARGET_DIM
  /\ \A i \in 1..Len(v) : v[i] = IF i <= Len(e) THEN e[i] ELSE 0

ExpectedVector(text, ok, v) ==
  IF ok THEN PaddedFrom(ModelEncode(text, model_dim), v)
  ELSE PaddedFrom(<<>>, v)

C10_Dimension ==
  /\ \A h \in DOMAIN embedding_cache :
       Len(embedding_cache[h]) = PINECONE_TARGET_DIM
  /\ \A t \in GoodQueries : \A v \in returned_vecs[t] :
       Len(v) = PINECONE_TARGET_DIM
  /\ (last_call.fn # "none" /\ ~last_call.raised) =>
       /\ Len(last_call.result) = Len(last_call.texts)
       /\ \A k \in 1..Len(last_call.result) :
            /\ Len(last_call.result[k]) = PINECONE_TARGET_DIM
            /\ ~last_call.hit =>
                 ExpectedVector(last_call.texts[k], last_call.ok,
                                last_call.result[k])

C10_Witness ==
  /\ model_dim = EMBEDDING_DIM
  /\ last_call.fn = "get_cached_embedding"
  /\ ~last_call.hit
  /\ last_call.ok
  /\ last_call.result[1][EMBEDDING_DIM] # 0
  /\ last_call.result[1][EMBEDDING_DIM + 1] = 0

\* C11 (as claimed): whatever the graph store holds, no fact returned by
\* query_neo4j_async has an empty name, the name 'Unknown', or a description
\* of 20 characters or fewer.
C11_FactsAreClean ==
  (fn_call.fn = "query_neo4j_async" /\ fn_call.done) =>
    \A k \in 1..Len(fn_call.result) :
      /\ fn_call.result[k].name # None
      /\ fn_call.result[k].name # <<>>
      /\ fn_call.result[k].name # Chars("Unknown")
      /\ fn_call.result[k].description # None
      /\ Len(fn_call.result[k].description) > 20

\* C12: extract_key_terms returns the vocabulary terms that occur in the
\* lower-cased query, each once, together with one entry for every integer
\* that is followed (after optional white space) by 'day'; when there is
\* neither, it returns ['vietnam', 'travel'], so the result is never empty.
C12_Vocabulary ==
  {travel_terms[k] : k \in 1..Len(travel_terms)}
    \cup {vietnam_locations[k] : k \in 1..Len(vietnam_locations)}

\* q[i..j] is an integer of q: digits, with no digit before or after.
C12_IntegerAt(q, i, j) ==
  /\ i <= j
  /\ \A n \in i..j : IsDigit(q[n])
  /\ i = 1 \/ ~IsDigit(q[i - 1])
  /\ j = Len(q) \/ ~IsDigit(q[j + 1])

\* 'day' follows position j of q, after white space only.
C12_DayFollows(q, j) ==
  \E n \in (j + 1)..(Len(q) - 2) :
    /\ \A s \in (j + 1)..(n - 1) : q[s] = " "
    /\ <<q[n], q[n + 1], q[n + 2]>> = <<"d", "a", "y">>

C12_DayCounts(q) ==
  {ij \in (1..Len(q)) \X (1..Len(q)) :
     C12_IntegerAt(q, ij[1], ij[2]) /\ C12_DayFollows(q, ij[2])}

C12_ExtractedTerms ==
  (fn_call.fn = "extract_key_terms" /\ fn_call.done) =>
    LET q == lower(fn_call.query)
        result == fn_call.result
        words == {Chars(t) : t \in {t \in C12_Vocabulary : Contains(Chars(t), q)}}
        days == C12_DayCounts(q)
    IN /\ result # <<>>
       /\ IF words = {} /\ days = {}
            THEN result = <<<<"v", "i", "e", "t", "n", "a", "m">>,
                            <<"t", "r", "a", "v", "e", "l">>>>
            ELSE /\ {result[k] : k \in 1..Len(result)}
                      = words \cup {SubSeq(q, ij[1], ij[2]) : ij \in days}
                 /\ Len(result) = Cardinality(words) + Cardinality(days)

\* 'Create a romantic 4 day itinerary' yields 'romantic' and '4' (and more).
C12_Witness ==
  /\ fn_call.fn = "extract_key_terms"
  /\ fn_call.done
  /\ fn_call.query = Chars("Create a romantic ") \o Chars("4 day ")
                        \o Chars("itinerary")
  /\ \E k \in 1..Len(fn_call.result) : fn_call.result[k] = Chars("romantic")
  /\ \E k \in 1..Len(fn_call.result) : fn_call.result[k] = <<"4">>

\* The lines of a rendered block: every other element, from the first.
BlockLines(block) == [i \in 1..((Len(block) + 1) \div 2) |-> block[2 * i - 1]]

\* C13: build_prompt renders the vector block from the first min(n, 5)
\* matches and the graph block from the first min(m, 8) facts, one line per
\* item and line i for item i; the block of an empty source is the empty
\* string.
C13_BlocksCapped ==
  (fn_call.fn = "build_prompt" /\ fn_call.done) =>
    LET vec_block == fn_call.result[2].content[2]
        graph_block == fn_call.result[2].content[3]
        vec_lines == BlockLines(vec_block)
        graph_lines == BlockLines(graph_block)
        n == Len(fn_call.matches)
        k == Len(fn_call.facts)
    IN /\ Len(vec_lines) = IF n < 5 THEN n ELSE 5
       /\ Len(graph_lines) = IF k < 8 THEN k ELSE 8
       /\ Len(vec_block) = IF n = 0 THEN 0 ELSE 2 * Len(vec_lines) - 1
       /\ Len(graph_block) = IF k = 0 THEN 0 ELSE 2 * Len(graph_lines) - 1
       /\ n = 0 => vec_block = <<>>
       /\ k = 0 => graph_block = <<>>
       /\ \A i \in 1..Len(vec_lines) :
            /\ vec_lines[i][1] = i
            /\ "metadata" \in DOMAIN fn_call.matches[i]
                 /\ "name" \in DOMAIN fn_call.matches[i].metadata
                 => vec_lines[i][2] = fn_call.matches[i].metadata.name
            /\ "score" \in DOMAIN fn_call.matches[i]
                 => vec_lines[i][8] = (fn_call.matches[i].score + 5) \div 10
       /\ \A i \in 1..Len(graph_lines) :
            "name" \in DOMAIN fn_call.facts[i]
              => graph_lines[i][1] = fn_call.facts[i].name

C13_Witness ==
  /\ fn_call.fn = "build_prompt"
  /\ fn_call.done
  /\ Len(fn_call.matches) = 6
  /\ Len(fn_call.facts) = 9
  /\ Len(BlockLines(fn_call.result[2].content[2])) = 5
  /\ Len(BlockLines(fn_call.result[2].content[3])) = 8

\* C19: for a match or fact in which any subset of the fields is missing,
\* build_prompt produces the item's line with the default in the place of
\* each missing field: 'Unknown' for name, type and region, the long-form
\* text or '' for the description, no tags, no nearby locations,
\* 'Not specified' for the best time and 0 for the score.
C19_MatchLineOK(line, match) ==
  LET Has(key) == /\ "metadata" \in DOMAIN match
                  /\ key \in DOMAIN match.metadata
  IN /\ Len(line) = 8
     /\ line[2] = IF Has("name") THEN match.metadata.name ELSE "Unknown"
     /\ line[3] = IF Has("type") THEN match.metadata.type ELSE "Unknown"
     /\ line[4] = IF Has("region") THEN match.metadata.region ELSE "Unknown"
     /\ line[5] = IF Has("description") THEN match.metadata.description
                  ELSE IF Has("semantic_text") THEN match.metadata.semantic_text
                  ELSE ""
     /\ line[6] = IF Has("tags") /\ Len(match.metadata.tags) > 0
                    THEN <<"Tags", match.metadata.tags>> ELSE <<>>
     /\ line[7] = IF Has("best_time_to_visit")
                    THEN match.metadata.best_time_to_visit ELSE "Not specified"
     /\ line[8] = IF "score" \in DOMAIN match
                    THEN (match.score + 5) \div 10 ELSE 0

C19_FactLineOK(line, fact) ==
  LET Has(key) == key \in DOMAIN fact
      Unknown == <<"U", "n", "k", "n", "o", "w", "n">>
  IN /\ Len(line) = 6
     /\ line[1] = IF Has("name") THEN fact.name ELSE Unknown
     /\ line[2] = IF Has("type") THEN fact.type ELSE Unknown
     /\ line[3] = IF Has("region") THEN fact.region ELSE Unknown
     /\ line[4] = IF Has("description") THEN fact.description ELSE <<>>
     /\ Has("tags") \/ line[5] = <<>>
     /\ Has("nearby_locations") \/ line[6] = <<>>

C19_DefaultsSubstituted ==
  (fn_call.fn = "build_prompt" /\ fn_call.done) =>
    LET vec_lines == BlockLines(fn_call.result[2].content[2])
        graph_lines == BlockLines(fn_call.result[2].content[3])
    IN /\ Len(vec_lines) = Min(Len(fn_call.matches), 5)
       /\ Len(graph_lines) = Min(Len(fn_call.facts), 8)
       /\ \A i \in 1..Len(vec_lines) :
            C19_MatchLineOK(vec_lines[i], fn_call.matches[i])
       /\ \A i \in 1..Len(graph_lines) :
            C19_FactLineOK(graph_lines[i], fn_call.facts[i])

\* A fact with none of the fields build_prompt reads has been rendered.
C19_Witness ==
  /\ fn_call.fn = "build_prompt"
  /\ fn_call.done
  /\ Len(fn_call.facts) = 2
  /\ DOMAIN fn_call.facts[2] = {"node_id", "best_time"}
  /\ Len(BlockLines(fn_call.result[2].content[3])) = 2
  /\ BlockLines(fn_call.result[2].content[3])[2][1] = Chars("Unknown")

\* C14: calls of build_prompt with the same (query, matches, facts) return
\* the same prompt whatever was called in between; the prompt is the system
\* directive followed by the user message that carries the query verbatim;
\* and a call changes neither its arguments nor the cache, the driver
\* reference or the system directive.
C14_StateOK ==
  /\ \A i \in DOMAIN prompts : Cardinality(prompts[i]) <= 1
  /\ fn_call.last # 0 =>
       /\ Len(fn_call.result) = 2
       /\ fn_call.result[1] =
            [role |-> "system",
             content |-> "You are an expert Vietnam travel assistant"]
       /\ fn_call.result[2].role = "user"
       /\ Len(fn_call.result[2].content) = 3
       /\ fn_call.result[2].content[1] = fn_call.arguments[fn_call.last].query

C14_StepOK ==
  /\ fn_call'.arguments = fn_call.arguments
  /\ prompts' # prompts =>
       UNCHANGED <<embedding_cache, neo4j_driver, system_prompt, model_dim>>

C14_PureDeterministic == [](C14_StateOK) /\ [][C14_StepOK]_vars

\* The same arguments were rendered before and after the cache changed.
C14_Witness ==
  /\ fn_call.last = 2
  /\ {<<2, 0>>, <<2, 1>>} \subseteq fn_call.seen
  /\ Cardinality(prompts[2]) = 1

\* C15: when the embedding, the index query, the graph query and the
\* completion all succeed, process_query_with_metrics returns the matches the
\* index answered, all of them and in the index's order, the facts of the rows
\* the graph query answered, in their order, and the completion's text as the
\* response.
C15_ResultsPassedThrough ==
  ( /\ req.pc = "returned"
    /\ ~obs.provider_failed /\ ~obs.index_failed /\ ~obs.graph_failed
    /\ obs.completion_error = <<>> ) =>
    /\ ret.status = "returned"
    /\ Len(ret.pinecone_results) = Len(obs.index_answer)
    /\ \A k \in 1..Len(obs.index_answer) :
         ret.pinecone_results[k] = obs.index_answer[k]
    /\ Len(ret.neo4j_results) = Len(obs.graph_answer)
    /\ \A k \in 1..Len(obs.graph_answer) :
         /\ ret.neo4j_results[k].node_id = obs.graph_answer[k].node_id
         /\ ret.neo4j_results[k].name = obs.graph_answer[k].name
         /\ ret.neo4j_results[k].description = obs.graph_answer[k].description
         /\ ret.neo4j_results[k].tags = obs.graph_answer[k].tags
    /\ ret.response = obs.completion_answer
    /\ ret.response # <<>>

C15_Witness ==
  /\ req.pc = "returned"
  /\ ~obs.provider_failed /\ ~obs.index_failed /\ ~obs.graph_failed
  /\ obs.completion_error = <<>>
  /\ Len(obs.index_answer) = 3
  /\ Len(obs.graph_answer) = 2
  /\ Len(ret.pinecone_results) = 3
  /\ Len(ret.neo4j_results) = 2
  /\ ret.response = <<"Day 1: Hanoi">>

\* C18: the completion is called only after the vector query and, when the
\* driver is set, the graph query have both finished and the search has
\* returned; and nothing is returned before the search and the generation
\* have completed.
C18_SearchDone ==
  /\ req.pinecone_task = "done"
  /\ obs.index_queries = 1
  /\ neo4j_driver # "None" => (req.neo4j_task = "done" /\ obs.graph_queries = 1)
  /\ req.search_time # NoTime

C18_StagesInOrder ==
  /\ obs.completion_calls > 0 =>
       (C18_SearchDone /\ req.pc \in {"generated", "returned"})
  /\ req.pc \in {"searched", "generated", "returned"} => C18_SearchDone
  /\ ret.status = "returned" =>
       /\ req.pc = "returned"
       /\ C18_SearchDone
       /\ obs.completion_calls = 1
       /\ ret.response # <<>>

C18_Witness ==
  /\ ret.status = "returned"
  /\ neo4j_driver # "None"
  /\ obs.graph_queries = 1
  /\ obs.completion_calls = 1
  /\ req.search_time = 2
  /\ req.response_time = 1

\* C16: get_system_status reports neo4j_connected false whenever the driver
\* is None or the connectivity check fails, and true whenever the driver is
\* set and the check succeeds, whatever the last graph query returned.
C16_Neo4jConnected ==
  status.called =>
    /\ neo4j_driver = "None" => ~status.result.neo4j_connected
    /\ neo4j_driver # "None" =>
         (status.result.neo4j_connected <=> status.reachable)

\* Connected is reported after a graph query that found no fact.
C16_Witness ==
  /\ status.called
  /\ status.result.neo4j_connected
  /\ req.neo4j_task = "done"
  /\ obs.graph_queries = 1
  /\ ~obs.graph_failed
  /\ req.neo4j_results = <<>>

\* C17: a call of get_system_status, at any point of a request, changes
\* neither the driver reference nor the cache nor anything of the request in
\* flight, and the request returns what it returns without such a call: the
\* matches and facts its queries found and the completion's answer.
C17_StateOK ==
  (status.called /\ req.pc = "returned") =>
    /\ ret.status = "returned"
    /\ ret.pinecone_results = FoundMatches
    /\ ret.neo4j_results = FoundFacts
    /\ ret.response = IF obs.completion_error = <<>> THEN obs.completion_answer
                      ELSE <<GroqApology, obs.completion_error[1]>>

C17_StepOK ==
  (status'.called /\ status' # status) =>
    UNCHANGED <<neo4j_driver, embedding_cache, model_dim, system_prompt, req,
                ret, now, requests, obs, app>>

C17_StatusIsReadOnly == [](C17_StateOK) /\ [][C17_StepOK]_vars

\* The status was asked for after the request began and before its graph
\* query ran, and the connectivity check failed.
C17_Witness ==
  /\ status.called
  /\ ~status.reachable
  /\ req.pc = "terms"
  /\ Len(req.pinecone_results) = 3

\* C20 (as claimed): the search duration in the metrics is the duration
\* hybrid_search_with_metrics measured, and the total is the search duration
\* plus the generation duration.  (metrics.search_time is in tenths.)
C20_SearchTimeMeasured ==
  app.status = "ok" =>
    /\ app.metrics.search_time = 10 * req.search_time
    /\ app.metrics.total_time = req.search_time + req.response_time

\* C21 (as claimed): when hybrid_search returns, every branch task it created
\* for the request has been awaited to completion, the substitute branch of a
\* system without a graph store included.
C21_BranchesJoined ==
  req.pc = "searched" =>
    /\ req.pinecone_task = "done"
    /\ req.neo4j_task = "done"

Max(a, b) == IF a > b THEN a ELSE b

\* C22 (as claimed): when the vector query took a > 0 and the graph query took
\* b > 0, the search duration hybrid_search_with_metrics measured is
\* max(a, b), the time from the launch to the join of two concurrent branches.
C22_DurationIsMax ==
  (/\ req.pc = "searched"
   /\ obs.index_time > 0
   /\ obs.graph_time > 0)
    => req.search_time = Max(obs.index_time, obs.graph_time)

\* What the code measures instead: the branches run one after the other, so the
\* duration is the sum of the two.
C22_DurationIsSum ==
  req.pc = "searched" => req.search_time = obs.index_time + obs.graph_time

\* C23 (as claimed): a result of query_neo4j_async holds at most one fact per
\* graph entity (no two facts with the same node id), whatever relations the
\* entity has, and at most 10 facts.
C23_OneFactPerEntity ==
  (fn_call.fn = "query_neo4j_async" /\ fn_call.done) =>
    /\ \A i, j \in 1..Len(fn_call.result) :
         i # j => fn_call.result[i].node_id # fn_call.result[j].node_id
    /\ Len(fn_call.result) <= Limit

\* What does hold: two facts of one entity differ in their region, an entity
\* with at most one LOCATED_IN relation yields at most one fact, and the
\* result has at most 10 facts.
C23_OneFactPerEntityAndRegion ==
  (fn_call.fn = "query_neo4j_async" /\ fn_call.done) =>
    /\ \A i, j \in 1..Len(fn_call.result) :
         (i # j /\ fn_call.result[i].node_id = fn_call.result[j].node_id) =>
           /\ fn_call.result[i].region # fn_call.result[j].region
           /\ \E loc \in fn_call.store :
                /\ loc.id = fn_call.result[i].node_id
                /\ Len(loc.located_in) > 1
    /\ Len(fn_call.result) <= Limit

\* C24 (as claimed): the collection extract_key_terms returns is a set: no
\* term occurs in it more than once.
C24_NoTermTwice ==
  (fn_call.fn = "extract_key_terms" /\ fn_call.done) =>
    \A i, j \in 1..Len(fn_call.result) :
      i # j => fn_call.result[i] # fn_call.result[j]

\* What does hold: only a day count can occur twice, a vocabulary term never.
C24_NoVocabularyTermTwice ==
  (fn_call.fn = "extract_key_terms" /\ fn_call.done) =>
    \A i, j \in 1..Len(fn_call.result) :
      (i # j /\ fn_call.result[i] = fn_call.result[j]) =>
        \A c \in 1..Len(fn_call.result[i]) : IsDigit(fn_call.result[i][c])

\* C25 (as claimed): one run of process_query_with_metrics makes at most one
\* embedding-provider call, at most one vector index query, at most one graph
\* query and, whatever fails, exactly one completion call.
C25_SingleAttempt ==
  /\ obs.embed_calls <= 1
  /\ obs.index_queries <= 1
  /\ obs.graph_queries <= 1
  /\ obs.completion_calls <= 1
  /\ req.pc \in {"returned", "raised"} => obs.completion_calls = 1

\* What does hold: no call is made twice, and a run that returns has made
\* exactly one completion call.
C25_SingleAttemptOfReturnedRun ==
  /\ obs.embed_calls <= 1
  /\ obs.index_queries <= 1
  /\ obs.graph_queries <= 1
  /\ obs.completion_calls <= 1
  /\ req.pc = "returned" =>
       /\ obs.completion_calls = 1
       /\ obs.index_queries = 1
       /\ obs.graph_queries = IF DriverTruthy(neo4j_driver) THEN 1 ELSE 0

\* The request has gone past the search only with both queries returned, and
\* a completion call was made only then; a run raises only for a query that
\* cannot be encoded.
C26_StateOK ==
  /\ (req.pc \in {"searched", "generated", "returned"}
        \/ obs.completion_calls > 0)
       => /\ obs.index_queries = 1
          /\ DriverTruthy(neo4j_driver) => obs.graph_queries = 1
  /\ req.pc = "raised" => ~Encodable(req.query)

\* Nothing but the return of the query ends the wait for it.
C26_StepOK ==
  /\ (req.pc = "embedded" /\ req'.pc # "embedded")
       => obs'.index_queries = obs.index_queries + 1
  /\ (req.pc = "terms" /\ req'.pc # "terms")
       => obs'.graph_queries = obs.graph_queries + 1

\* C26: no branch has a timeout.  If every provider call eventually returns, a
\* started run of process_query_with_metrics eventually completes (it returns;
\* for a query that cannot be encoded it raises); and a request whose vector
\* or graph query has not returned stays waiting for it: it does not complete
\* and makes no completion call.
C26_NoTimeout ==
  /\ (req.pc # "idle") ~> (req.pc \in {"returned", "raised"})
  /\ [](C26_StateOK)
  /\ [][C26_StepOK]_vars

\* A request whose two queries were both slow has waited for them and returned.
C26_Witness ==
  /\ req.pc = "returned"
  /\ obs.index_time = MaxDelay
  /\ obs.graph_time = MaxDelay
  /\ req.search_time = 2 * MaxDelay
  /\ obs.completion_calls = 1

\* What process_query_with_metrics and process_user_query hand on, but for the
\* response string and the time values, put together from the query and the
\* backends' answers alone.
C27_VisibleOK ==
  /\ ret.status = "returned"
  /\ ret.pinecone_results = FoundMatches
  /\ ret.neo4j_results = FoundFacts
  /\ app # NoApp =>
       /\ app.status = "ok"
       /\ app.pinecone_results = FoundMatches
       /\ app.neo4j_results = FoundFacts
       /\ app.metrics.vector_results = Len(FoundMatches)
       /\ app.metrics.graph_results = Len(FoundFacts)
       /\ app.error = <<>>

C27_StateOK == req.pc = "returned" => C27_VisibleOK

\* The completion call, failed or not, changes the response and the times of
\* the request and nothing else of it.
C27_StepOK ==
  req.pc = "searched" =>
    \A f \in (DOMAIN req) \ {"pc", "response", "response_time", "total_time"} :
      req'[f] = req[f]

\* C27: for the same query and the same backend results, what
\* process_query_with_metrics returns and what process_user_query builds from
\* it (match list, fact list, result counts, error None) is the same whether
\* the completion provider succeeded or failed, apart from the response string
\* and the time values.
C27_FailureOnlyInResponse == [](C27_StateOK) /\ [][C27_StepOK]_vars

\* A request whose completion failed was handed on by process_user_query
\* with its three matches, its two facts and no error.
C27_Witness ==
  /\ req.pc = "returned"
  /\ obs.completion_error # <<>>
  /\ app # NoApp
  /\ app.error = <<>>
  /\ app.metrics.vector_results = 3
  /\ app.metrics.graph_results = 2
  /\ Head(app.response) = GroqApology

\* C28: whatever state the system is in, a failed index query or a failed
\* embedding computation included, get_system_status reports
\* pinecone_connected = True and embedding_model_loaded = True;
\* groq_configured tells whether the configuration holds an API key, and
\* neo4j_connected follows the driver and its connectivity check.
C28_FixedFlags ==
  status.called =>
    /\ status.result.pinecone_connected
    /\ status.result.embedding_model_loaded
    /\ status.result.groq_configured <=> (GROQ_API_KEY # "")
    /\ status.result.neo4j_connected <=>
         (DriverTruthy(neo4j_driver) /\ status.reachable)

\* The status was read after the embedding computation and the index query of
\* the request in flight had both failed, on a system whose graph store is
\* unreachable.
C28_Witness ==
  /\ status.called
  /\ obs.provider_failed
  /\ obs.index_failed
  /\ req.pc = "pinecone_done"
  /\ status.at = "pinecone_done"
  /\ DriverTruthy(neo4j_driver)
  /\ ~status.result.neo4j_connected
  /\ status.result.pinecone_connected
  /\ status.result.embedding_model_loaded

\* A run that did not get a result without error from process_user_query
\* leaves last_response as it was; a run that got one stores it; and a run
\* that processed a submission leaves process_query False.
C29_StepOK ==
  /\ session_state'.last_response # session_state.last_response
       => /\ fn_call'.processed /\ fn_call'.called /\ ~fn_call'.raised
          /\ fn_call'.chat_system # "None"
          /\ fn_call'.result.error = <<>>
          /\ session_state'.last_response.query = session_state'.user_input
          /\ session_state'.last_response.response = fn_call'.result.response
  /\ ( \/ ~fn_call'.called
       \/ fn_call'.raised
       \/ fn_call'.result.error # <<>> )
       => session_state'.last_response = session_state.last_response
  /\ fn_call'.processed => ~session_state'.process_query

\* C29: run replaces st.session_state.last_response only when processing the
\* submitted query succeeds; when process_user_query returns an error or
\* raises, or the system is not initialized, last_response keeps its previous
\* value; and every run that processes a submission resets process_query.
C29_LastResponseKept == [][C29_StepOK]_vars

\* The last run processed a query that ended in an error, and last_response
\* still holds the response to an earlier query.
C29_Witness ==
  /\ fn_call.fn = "run"
  /\ fn_call.processed /\ fn_call.called /\ ~fn_call.raised
  /\ fn_call.result.error # <<>>
  /\ session_state.user_input = SurrogateQuery
  /\ session_state.last_response # NoResponse
  /\ session_state.last_response.query = quick_queries[1]
  /\ ~session_state.process_query

RECURSIVE C30_UpsertedCount(_)
C30_UpsertedCount(batches) ==
  IF batches = <<>> THEN 0
  ELSE (IF Head(batches).outcome = "upserted" THEN Len(Head(batches).batch)
        ELSE 0) + C30_UpsertedCount(Tail(batches))

RECURSIVE C30_Ids(_)
C30_Ids(batches) ==
  IF batches = <<>> THEN <<>>
  ELSE [k \in 1..Len(Head(batches).batch) |-> Head(batches).batch[k].id]
         \o C30_Ids(Tail(batches))

\* C30: upload_vectors cuts the vectors into consecutive batches of
\* batch_size (the last one may be shorter), each vector in exactly one batch;
\* a batch whose first vector is not 1024-dimensional, or whose upsert fails,
\* is skipped and the batches after it are still handled; the value returned
\* is the sum of the sizes of the batches whose upsert succeeded, never more
\* than the number of vectors, and 0 for an empty list.
C30_BatchesCounted ==
  (fn_call.fn = "upload_vectors" /\ fn_call.done) =>
    LET n == Len(fn_call.vectors)
        b == fn_call.batch_size
        batches == fn_call.batches
    IN /\ C30_Ids(batches) = [k \in 1..n |-> k]
       /\ Len(batches) = (n + b - 1) \div b
       /\ \A j \in 1..Len(batches) :
            /\ Len(batches[j].batch) = IF j < Len(batches) THEN b
                                       ELSE n - (j - 1) * b
            /\ batches[j].outcome = "mismatch"
                 <=> Len(batches[j].batch[1].values) # 1024
       /\ fn_call.result = C30_UpsertedCount(batches)
       /\ fn_call.result <= n
       /\ n = 0 => fn_call.result = 0

\* A call whose first batch failed, whose second began with a vector of the
\* wrong dimension and whose last, shorter, batch was uploaded; the later
\* vector of the wrong dimension in the first batch did not get it skipped.
C30_Witness ==
  /\ fn_call.fn = "upload_vectors" /\ fn_call.done
  /\ Len(fn_call.vectors) = 5
  /\ fn_call.batch_size = 2
  /\ Len(fn_call.batches) = 3
  /\ fn_call.batches[1].outcome = "failed"
  /\ Len(fn_call.batches[1].batch[2].values) # 1024
  /\ fn_call.batches[2].outcome = "mismatch"
  /\ fn_call.batches[3].outcome = "upserted"
  /\ fn_call.result = 1

====
